---------------------------- MODULE Spec2Model ----------------------------
(***************************************************************************)
(* Model of the Iodine network object model (src/rkviewer/iodine.py): the  *)
(* network registry, the entity graph of a network (nodes, reactions,     *)
(* compartments with the derived srcMap/destMap indices) and the          *)
(* snapshot-based undo/redo engine with its group flag; and of the event  *)
(* handler registry of src/rkviewer/events.py.                            *)
(*                                                                         *)
(* Every API function is an operator from the module-level state (a       *)
(* record of the module's globals plus the exception the call raised) to  *)
(* the state it leaves behind; an action applies one function to the     *)
(* current state.  The objects of a registry are values here, except the  *)
(* TFont objects, which the code mutates in place and shares: a node      *)
(* carries the value of its font together with the name of the font       *)
(* object it refers to (fontObj), and a write through one node reaches    *)
(* every node of the live registry that refers to the same object.        *)
(* The defaultdicts srcMap and destMap are read only by indexing, so an   *)
(* absent key and a key bound to the empty set are the same map here.     *)
(***************************************************************************)
EXTENDS Integers, Sequences, FiniteSets, TLC

VARIABLES
    networkDict,    \* iodine.networkDict: net index -> TNetwork
    netSetStack,    \* iodine.netSetStack.items: the undo stack, most recent last
    redoStack,      \* iodine.redoStack.items
    stackFlag,      \* iodine.stackFlag: TRUE = Idle, FALSE = a group is open
    errCode,        \* iodine.errCode: the module-level error code
    lastNetIndex,   \* iodine.lastNetIndex: the module-level next network index
    defaultFont,    \* the one TFont() object that is the default of TNode.font
    op,             \* the API function called last
    raised,         \* the exception class that call raised, "none" if it returned
    grp,            \* observer of the group window opened by the last startGroup
    pair,           \* observer of an undo() and the redo() called right after it
    handlerNodes,   \* events: the HandlerNode objects, by the order of their creation
    event_chains,   \* events.event_chains: event class -> HandlerChain
    handler_map,    \* events.handler_map: handler id -> (chain, node)
    handler_id,     \* events.handler_id: the next handler id
    posted          \* the events call made last, with what it returned or raised

\* the variables of events.py
evVars == <<handlerNodes, event_chains, handler_map, handler_id, posted>>

vars == <<networkDict, netSetStack, redoStack, stackFlag, errCode, lastNetIndex,
          defaultFont,
          op, raised, grp, pair, evVars>>

---------------------------------------------------------------------------
(* Bounds of the model.                                                    *)

\* snapshots on the undo stack
MaxStack == 5
\* snapshots on the undo stack while the model opens groups
MaxGroupStack == 3
\* snapshots on the undo stack while the model tries the field setters
MaxSetterStack == 3
\* successful mutating calls counted in one group window
MaxGroupCalls == 2
\* snapshots on the undo stack while the model moves nodes between compartments
MaxCompStack == 1
\* snapshots on the undo stack while the model tries the compartment setters
MaxCompSetterStack == 4
\* snapshots on the undo stack while the model creates and renames reactions
MaxReaStack == 5
\* snapshots on the undo stack while the model adds and deletes nodes only
MaxIndexStack == 5
MaxRecipeStack == 4
MaxSerialStack == 6
MaxFlagStack == 2

(* Inputs the calls are tried with.                                        *)

NetIDs == {"net1"}
NodeIDs == {"A", "B"}
ReaIDs == {"r1", "r2"}
CompIDs == {"c1", "c2"}
NetArgs == {0}
NodeArgs == {0, 1}
ReaArgs == {0, 1}
CompArgs == {-1, 0, 1}
\* (x, y, w, h) of addNode: one legal geometry, a negative x, a zero width
AddGeoms == {<<0, 0, 10, 10>>, <<-1, 0, 10, 10>>, <<0, 0, 0, 10>>}
\* (x, y, w, h) of addCompartment: one legal geometry, a negative x
CompGeoms == {<<0, 0, 50, 50>>, <<-1, 0, 50, 50>>}
\* (x, y) of setCompartmentPosition and (w, h) of setCompartmentSize
CompCoords == {<<7, 7>>, <<-1, 7>>}
Volumes == {2}
\* (x, y) of setNodeCoordinate
Coords == {<<5, 5>>, <<-1, 5>>}
\* (w, h) of setNodeSize
Sizes == {<<20, 20>>, <<0, 20>>}
\* (r, g, b) of setNodeFillColorRGB
RGBs == {<<1, 2, 3>>, <<256, 0, 0>>, <<0, -1, 0>>}
\* a float argument: twice its value, or not-a-number
Half(k) == [nan |-> FALSE, twice |-> k]
NaN == [nan |-> TRUE, twice |-> 0]
\* alpha of the colour setters: -0.5, 0.5, 1.5 and float('nan')
Alphas == {Half(-1), Half(1), Half(3), NaN}
PointSizes == {0, 12}
Thicknesses == {0, 5}
\* lists of node indices given to createReaction
NodeLists == {<<>>, <<0>>, <<1>>, <<0, 1>>}
\* centerPos of setReactionCenterPos: None or a Vec2
None == <<>>
CenterPositions == {None, <<5, 5>>}

\* stoichiometries: one that the setters refuse and one that they take
Stoichs == {0, 2}

RateLaws == {"k1*A"}

---------------------------------------------------------------------------
(* The floor of setNodeCoordinate under allowNegativeCoordinates.  The     *)
(* source has -1E12, beyond 32-bit integers; every coordinate tried lies  *)
(* far above either number.                                                *)

NegativeFloor == -1000000000

---------------------------------------------------------------------------
(* Error codes and exception classes.                                      *)

ExceptionDict(code) ==
    CASE code = -2 -> "IDNotFoundError"
      [] code = -3 -> "IDRepeatError"
      [] code = -4 -> "NodeNotFreeError"
      [] code = -5 -> "NetIndexError"
      [] code = -6 -> "ReactionIndexError"
      [] code = -7 -> "NodeIndexError"
      [] code = -8 -> "StoichError"
      [] code = -9 -> "StackEmptyError"
      [] code = -10 -> "JSONError"
      [] code = -11 -> "FileError"
      [] code = -12 -> "ValueError"
      [] code = -13 -> "CompartmentIndexError"

\* errCode = code; raise ExceptionDict[errCode](...)
raiseError(s, code) ==
    [s EXCEPT !.errCode = code, !.raised = ExceptionDict(code)]

\* raise <exc> with the module-level errCode left as it is
raiseOnly(s, exc) == [s EXCEPT !.raised = exc]

---------------------------------------------------------------------------
(* Entities.                                                               *)

TColor(r, g, b, a) == [r |-> r, g |-> g, b |-> b, a |-> a]

\* TColor.swapped(r, g, b): a is None and stays
swappedRGB(c, r, g, b) == TColor(r, g, b, c.a)

\* TColor.swapped(a=a): r, g, b are None and stay
swappedA(c, a) == TColor(c.r, c.g, c.b, a)

\* TFont(): the attributes of a new font object
TFont ==
    [pointSize |-> 20, family |-> "default", style |-> "normal",
     weight |-> "default", name |-> "", color |-> TColor(0, 0, 0, 255)]

\* the name of the font object that is the class-level default of TNode.font;
\* every other font object is a deep copy, named by the least node that
\* refers to it
ClassDefault == <<>>

\* TNode(id, position, rectSize, floating): font is the default object itself,
\* whose attributes are `font` at the time of the call
TNode(id, position, rectSize, floating, font) ==
    [id |-> id, position |-> position, rectSize |-> rectSize,
     floating |-> floating, compi |-> -1,
     fillColor |-> TColor(255, 150, 80, 255),
     outlineColor |-> TColor(255, 100, 80, 255),
     outlineThickness |-> 3,
     font |-> font, fontObj |-> ClassDefault]

TSpeciesNode(stoich) == [stoich |-> stoich, handlePos |-> <<0, 0>>]

TReaction(id, reactants, products) ==
    [id |-> id, centerPos |-> None, rateLaw |-> "",
     reactants |-> reactants, products |-> products,
     fillColor |-> TColor(255, 150, 80, 255), thickness |-> 3,
     centerHandlePos |-> <<0, 0>>, bezierCurves |-> TRUE]

TCompartment(id, position, rectSize) ==
    [id |-> id, position |-> position, rectSize |-> rectSize,
     node_indices |-> {}, volume |-> 1,
     fillColor |-> TColor(0, 247, 255, 255),
     outlineColor |-> TColor(0, 106, 255, 255),
     outlineThickness |-> 2]

EmptyMap == [k \in {} |-> {}]

\* m[k] of a defaultdict(set)
Get(m, k) == IF k \in DOMAIN m THEN m[k] ELSE {}

\* m[k].add(v)
MapAdd(m, k, v) ==
    [j \in DOMAIN m \cup {k} |-> IF j = k THEN Get(m, k) \cup {v} ELSE m[j]]

\* m[k].remove(v)
MapRemove(m, k, v) ==
    LET left == Get(m, k) \ {v}
    IN  [j \in (IF left = {} THEN DOMAIN m \ {k} ELSE DOMAIN m \cup {k}) |->
            IF j = k THEN left ELSE m[j]]

\* d[k] = v of a dict
Put(d, k, v) == [j \in DOMAIN d \cup {k} |-> IF j = k THEN v ELSE d[j]]

\* del d[k]
Del(d, k) == [j \in DOMAIN d \ {k} |-> d[j]]

\* TNetwork(id): a network with no entity
TNetwork(id) ==
    [id |-> id, nodes |-> EmptyMap, reactions |-> EmptyMap,
     compartments |-> EmptyMap, baseNodes |-> {},
     srcMap |-> EmptyMap, destMap |-> EmptyMap,
     lastNodeIdx |-> 0, lastReactionIdx |-> 0, lastCompartmentIdx |-> 0]

\* an addNode that gives the new node the least index no node has
netAddNodeLeastFree(net, node) ==
    LET idx == CHOOSE i \in 0..net.lastNodeIdx :
                   i \notin DOMAIN net.nodes /\ \A k \in 0..(i - 1) : k \in DOMAIN net.nodes
    IN  [net EXCEPT !.nodes = Put(@, idx, node),
                    !.baseNodes = @ \cup {idx},
                    !.lastNodeIdx = IF idx = @ THEN @ + 1 ELSE @]

\* an addNode that leaves the base set alone
netAddNodeNoBase(net, node) ==
    [net EXCEPT !.nodes = Put(@, net.lastNodeIdx, node),
                !.lastNodeIdx = @ + 1]

\* TNetwork.addNode
netAddNode(net, node) ==
    [net EXCEPT !.nodes = Put(@, net.lastNodeIdx, node),
                !.baseNodes = @ \cup {net.lastNodeIdx},
                !.lastNodeIdx = @ + 1]

---------------------------------------------------------------------------
(* The undo/redo engine.                                                   *)

\* the nodes of a registry, as <<neti, nodei>>
NodeRefs(netDict) ==
    UNION {{<<i, j>> : j \in DOMAIN netDict[i].nodes} : i \in DOMAIN netDict}

\* the nodes of a registry that refer to the font object of node ref
FontSharers(netDict, ref) ==
    {o \in NodeRefs(netDict) :
        netDict[o[1]].nodes[o[2]].fontObj = netDict[ref[1]].nodes[ref[2]].fontObj}

\* the least of a set of node references
Least(refs) ==
    CHOOSE m \in refs :
        \A o \in refs : m[1] < o[1] \/ (m[1] = o[1] /\ m[2] <= o[2])

\* the registry with its font objects named anew, as when nodes have gone;
\* copied = TRUE names the class default like any other object (it has been
\* copied), FALSE keeps it
renamed(netDict, copied) ==
    [i \in DOMAIN netDict |->
        [netDict[i] EXCEPT !.nodes =
            [j \in DOMAIN netDict[i].nodes |->
                [netDict[i].nodes[j] EXCEPT !.fontObj =
                    IF @ = ClassDefault /\ ~copied
                    THEN ClassDefault
                    ELSE Least(FontSharers(netDict, <<i, j>>))]]]]

\* copy.deepcopy(netDict): equal attribute by attribute, nodes that shared a
\* font object share its copy, and no node refers to the class default
deepcopy(netDict) == renamed(netDict, TRUE)

\* TStack.push: append a deep copy
push(items, netDict) == Append(items, deepcopy(netDict))

\* a pop from the wrong end: the oldest item
bottom(items) == items[1]

\* TStack.pop: the item returned
top(items) == items[Len(items)]

\* TStack.pop: the items left
popped(items) == SubSeq(items, 1, Len(items) - 1)

\* a push that does not look at the group flag
pushUndoStackAlways(s) ==
    [s EXCEPT !.redoStack = <<>>,
              !.netSetStack = push(@, s.networkDict)]

pushUndoStack(s) ==
    IF s.stackFlag
    THEN [s EXCEPT !.redoStack = <<>>,
                   !.netSetStack = push(@, s.networkDict)]
    ELSE s

\* an undo that forgets the registry it replaces
undoWithoutRedo(s) ==
    LET s0 == [s EXCEPT !.errCode = 0]
    IN  IF s0.netSetStack = <<>>
        THEN raiseError(s0, -9)
        ELSE [s0 EXCEPT !.networkDict = top(s0.netSetStack),
                        !.netSetStack = popped(@)]

undo(s) ==
    LET s0 == [s EXCEPT !.errCode = 0]
    IN  IF s0.netSetStack = <<>>
        THEN raiseError(s0, -9)
        ELSE [s0 EXCEPT !.redoStack = push(@, s0.networkDict),
                        !.networkDict = top(s0.netSetStack),
                        !.netSetStack = popped(@)]

redo(s) ==
    LET s1 == IF s.redoStack = <<>>
              THEN [s EXCEPT !.errCode = -9]
              ELSE [s EXCEPT !.netSetStack = push(@, s.networkDict),
                             !.networkDict = top(s.redoStack),
                             !.redoStack = popped(@)]
    IN  IF s1.errCode < 0 THEN raiseError(s1, s1.errCode) ELSE s1

startGroup(s) ==
    [s EXCEPT !.redoStack = <<>>,
              !.netSetStack = push(@, s.networkDict),
              !.stackFlag = FALSE]

endGroupStaysOpen(s) == s

endGroup(s) == [s EXCEPT !.stackFlag = TRUE]

---------------------------------------------------------------------------
(* Networks.                                                               *)

newNetwork(s, netID) ==
    LET s0 == [s EXCEPT !.errCode = 0]
    IN  IF \E i \in DOMAIN s0.networkDict : s0.networkDict[i].id = netID
        THEN raiseError(s0, -3)
        ELSE LET s1 == pushUndoStack(s0)
             IN  [s1 EXCEPT !.networkDict = Put(@, s1.lastNetIndex, TNetwork(netID)),
                            !.lastNetIndex = @ + 1]

clearNetwork(s, neti) ==
    LET s0 == [s EXCEPT !.errCode = 0]
    IN  IF neti \notin DOMAIN s0.networkDict
        THEN raiseError(s0, -5)
        ELSE LET s1 == pushUndoStack(s0)
             IN  [s1 EXCEPT !.networkDict =
                     renamed([@ EXCEPT ![neti] = TNetwork(@.id)], FALSE)]

---------------------------------------------------------------------------
(* Nodes.                                                                  *)

\* an addNode that does not look for the id among the nodes
addNodeAnyId(s, neti, nodeID, x, y, w, h) ==
    LET s0 == [s EXCEPT !.errCode = 0]
    IN  IF neti \notin DOMAIN s0.networkDict
        THEN raiseOnly(s0, "NetIndexError")
        ELSE IF x < 0 \/ y < 0 \/ w <= 0 \/ h <= 0
        THEN raiseError(s0, -12)
        ELSE LET s1 == pushUndoStack(s0)
             IN  [s1 EXCEPT !.networkDict[neti] =
                     netAddNode(s0.networkDict[neti],
                                TNode(nodeID, <<x, y>>, <<w, h>>, FALSE, s1.defaultFont))]

addNode(s, neti, nodeID, x, y, w, h) ==
    LET s0 == [s EXCEPT !.errCode = 0]
    IN  IF neti \notin DOMAIN s0.networkDict
        THEN \* _getNetwork raises with its own local errCode
             raiseOnly(s0, "NetIndexError")
        ELSE LET n == s0.networkDict[neti]
             IN  IF \E i \in DOMAIN n.nodes : n.nodes[i].id = nodeID
                 THEN raiseError(s0, -3)
                 ELSE IF x < 0 \/ y < 0 \/ w <= 0 \/ h <= 0
                 THEN raiseError(s0, -12)
                 ELSE LET s1 == pushUndoStack(s0)
                      IN  [s1 EXCEPT !.networkDict[neti] =
                              netAddNode(n, TNode(nodeID, <<x, y>>, <<w, h>>, FALSE,
                                                  s1.defaultFont))]

\* the set a node of compartment reference compi is removed from
\* (compi = -1: baseNodes)
container(net, compi) ==
    IF compi = -1 THEN net.baseNodes ELSE net.compartments[compi].node_indices

\* container(net, compi).remove(nodei) / .add(nodei), by the flag
withMember(net, compi, nodei, present) ==
    IF compi = -1
    THEN [net EXCEPT !.baseNodes =
             IF present THEN @ \cup {nodei} ELSE @ \ {nodei}]
    ELSE [net EXCEPT !.compartments[compi].node_indices =
             IF present THEN @ \cup {nodei} ELSE @ \ {nodei}]

\* whether net.compartments[compi].node_indices.remove(nodei), or
\* net.baseNodes.remove(nodei), raises KeyError
removeFails(net, compi, nodei) ==
    \/ compi # -1 /\ compi \notin DOMAIN net.compartments
    \/ nodei \notin container(net, compi)

\* getCompartmentOfNode, for an existing node of an existing network
getCompartmentOfNode(s, neti, nodei) == s.networkDict[neti].nodes[nodei].compi

\* a deleteNode that does not look at srcMap and destMap
deleteNodeInReaction(s, neti, nodei) ==
    IF neti \notin DOMAIN s.networkDict
    THEN raiseError(s, -5)
    ELSE LET n == s.networkDict[neti]
         IN  IF nodei \notin DOMAIN n.nodes
             THEN raiseError(s, -7)
             ELSE LET s1 == pushUndoStack([s EXCEPT !.errCode = 0])
                      compi == getCompartmentOfNode(s1, neti, nodei)
                      n1 == withMember(n, compi, nodei, FALSE)
                  IN  [s1 EXCEPT !.networkDict =
                          renamed([@ EXCEPT ![neti] =
                                      [n1 EXCEPT !.nodes = Del(@, nodei)]],
                                  FALSE)]

deleteNode(s, neti, nodei) ==
    IF neti \notin DOMAIN s.networkDict
    THEN raiseError(s, -5)
    ELSE LET n == s.networkDict[neti]
         IN  IF nodei \notin DOMAIN n.nodes
             THEN raiseError(s, -7)
             ELSE IF Get(n.srcMap, nodei) = {} /\ Get(n.destMap, nodei) = {}
             THEN LET s1 == pushUndoStack([s EXCEPT !.errCode = 0])
                      compi == getCompartmentOfNode(s1, neti, nodei)
                      n1 == withMember(n, compi, nodei, FALSE)
                  IN  IF removeFails(n, compi, nodei)
                      THEN \* set.remove of an index that is not in the set
                           raiseOnly(s1, "KeyError")
                      ELSE [s1 EXCEPT !.networkDict =
                              renamed([@ EXCEPT ![neti] =
                                          [n1 EXCEPT !.nodes = Del(@, nodei)]],
                                      FALSE)]
             ELSE raiseError(s, -4)

\* a setNodeID that does not look for the id among the nodes
setNodeIDAnyId(s, neti, nodei, newID) ==
    LET s0 == [s EXCEPT !.errCode = 0]
    IN  IF neti \notin DOMAIN s0.networkDict
        THEN raiseError(s0, -5)
        ELSE IF nodei \notin DOMAIN s0.networkDict[neti].nodes
        THEN raiseError(s0, -7)
        ELSE LET s1 == pushUndoStack(s0)
             IN  [s1 EXCEPT !.networkDict[neti].nodes[nodei].id = newID]

setNodeID(s, neti, nodei, newID) ==
    LET s0 == [s EXCEPT !.errCode = 0]
    IN  IF neti \notin DOMAIN s0.networkDict
        THEN raiseError(s0, -5)
        ELSE LET net == s0.networkDict[neti]
             IN  IF nodei \notin DOMAIN net.nodes
                 THEN raiseError(s0, -7)
                 ELSE IF \E i \in DOMAIN net.nodes : net.nodes[i].id = newID
                 THEN raiseError(s0, -3)
                 ELSE LET s1 == pushUndoStack(s0)
                      IN  [s1 EXCEPT !.networkDict[neti].nodes[nodei].id = newID]

setNodeCoordinate(s, neti, nodei, x, y, allowNegativeCoordinates) ==
    LET s0 == [s EXCEPT !.errCode = 0]
        lowerLimit == IF allowNegativeCoordinates THEN NegativeFloor ELSE 0
    IN  IF neti \notin DOMAIN s0.networkDict
        THEN raiseError(s0, -5)
        ELSE IF nodei \notin DOMAIN s0.networkDict[neti].nodes
        THEN raiseError(s0, -7)
        ELSE IF x < lowerLimit \/ y < lowerLimit
        THEN raiseError(s0, -12)
        ELSE LET s1 == pushUndoStack(s0)
             IN  [s1 EXCEPT !.networkDict[neti].nodes[nodei].position = <<x, y>>]

setNodeSize(s, neti, nodei, w, h) ==
    LET s0 == [s EXCEPT !.errCode = 0]
    IN  IF neti \notin DOMAIN s0.networkDict
        THEN raiseError(s0, -5)
        ELSE IF nodei \notin DOMAIN s0.networkDict[neti].nodes
        THEN raiseError(s0, -7)
        ELSE IF w <= 0 \/ h <= 0
        THEN raiseError(s0, -12)
        ELSE LET s1 == pushUndoStack(s0)
             IN  [s1 EXCEPT !.networkDict[neti].nodes[nodei].rectSize = <<w, h>>]

setNodeFillColorRGB(s, neti, nodei, r, g, b) ==
    LET s0 == [s EXCEPT !.errCode = 0]
    IN  IF neti \notin DOMAIN s0.networkDict
        THEN raiseError(s0, -5)
        ELSE IF nodei \notin DOMAIN s0.networkDict[neti].nodes
        THEN raiseError(s0, -7)
        ELSE IF r < 0 \/ r > 255 \/ g < 0 \/ g > 255 \/ b < 0 \/ b > 255
        THEN raiseError(s0, -12)
        ELSE LET s1 == pushUndoStack(s0)
             IN  [s1 EXCEPT !.networkDict[neti].nodes[nodei].fillColor =
                                swappedRGB(@, r, g, b)]

\* a < k and a > k of a float a and an integer k: both false of not-a-number
lessThan(a, k) == ~a.nan /\ a.twice < 2 * k

greaterThan(a, k) == ~a.nan /\ a.twice > 2 * k

\* int(a * 255) of a number a
toInt255(a) == (a.twice * 255) \div 2

setNodeFillColorAlpha(s, neti, nodei, a) ==
    LET s0 == [s EXCEPT !.errCode = 0]
    IN  IF neti \notin DOMAIN s0.networkDict
        THEN raiseError(s0, -5)
        ELSE IF nodei \notin DOMAIN s0.networkDict[neti].nodes
        THEN \* _getNode: _raiseError(-7)
             raiseError(s0, -7)
        ELSE IF lessThan(a, 0) \/ greaterThan(a, 1)
        THEN raiseError(s0, -12)
        ELSE LET s1 == pushUndoStack(s0)
             IN  IF a.nan
                 THEN \* int(a * 255) raises ValueError
                      raiseOnly(s1, "ValueError")
                 ELSE [s1 EXCEPT !.networkDict[neti].nodes[nodei].fillColor =
                                    swappedA(@, toInt255(a))]

setNodeOutlineColorRGB(s, neti, nodei, r, g, b) ==
    LET s0 == [s EXCEPT !.errCode = 0]
    IN  IF neti \notin DOMAIN s0.networkDict
        THEN raiseError(s0, -5)
        ELSE IF nodei \notin DOMAIN s0.networkDict[neti].nodes
        THEN raiseError(s0, -7)
        ELSE IF r < 0 \/ r > 255 \/ g < 0 \/ g > 255 \/ b < 0 \/ b > 255
        THEN raiseError(s0, -12)
        ELSE LET s1 == pushUndoStack(s0)
             IN  [s1 EXCEPT !.networkDict[neti].nodes[nodei].outlineColor =
                                swappedRGB(@, r, g, b)]

setNodeOutlineColorAlpha(s, neti, nodei, a) ==
    LET s0 == [s EXCEPT !.errCode = 0]
    IN  IF neti \notin DOMAIN s0.networkDict
        THEN raiseError(s0, -5)
        ELSE IF nodei \notin DOMAIN s0.networkDict[neti].nodes
        THEN raiseError(s0, -7)
        ELSE IF lessThan(a, 0) \/ greaterThan(a, 1)
        THEN raiseError(s0, -12)
        ELSE LET s1 == pushUndoStack(s0)
             IN  IF a.nan
                 THEN raiseOnly(s1, "ValueError")
                 ELSE [s1 EXCEPT !.networkDict[neti].nodes[nodei].outlineColor =
                                    swappedA(@, toInt255(a))]

setNodeOutlineThickness(s, neti, nodei, thickness) ==
    LET s0 == [s EXCEPT !.errCode = 0]
    IN  IF neti \notin DOMAIN s0.networkDict
        THEN raiseError(s0, -5)
        ELSE IF nodei \notin DOMAIN s0.networkDict[neti].nodes
        THEN raiseError(s0, -7)
        ELSE IF thickness <= 0
        THEN raiseError(s0, -12)
        ELSE LET s1 == pushUndoStack(s0)
             IN  [s1 EXCEPT !.networkDict[neti].nodes[nodei].outlineThickness = thickness]

\* an assignment to an attribute of the font object of a node: it shows in
\* every node of the live registry that refers to the same object, and in the
\* default of the nodes to come if the object is the class default
writeFont(s, neti, nodei, font) ==
    LET nd == s.networkDict
        obj == nd[neti].nodes[nodei].fontObj
    IN  [s EXCEPT
            !.networkDict =
                [i \in DOMAIN nd |->
                    [nd[i] EXCEPT !.nodes =
                        [j \in DOMAIN nd[i].nodes |->
                            IF nd[i].nodes[j].fontObj = obj
                            THEN [nd[i].nodes[j] EXCEPT !.font = font]
                            ELSE nd[i].nodes[j]]]],
            !.defaultFont = IF obj = ClassDefault THEN font ELSE @]

setNodeFontPointSize(s, neti, nodei, fontPointSize) ==
    LET s0 == [s EXCEPT !.errCode = 0]
    IN  IF neti \notin DOMAIN s0.networkDict
        THEN raiseError(s0, -5)
        ELSE IF nodei \notin DOMAIN s0.networkDict[neti].nodes
        THEN raiseError(s0, -7)
        ELSE IF fontPointSize <= 0
        THEN raiseError(s0, -12)
        ELSE LET s1 == pushUndoStack(s0)
                 font == s1.networkDict[neti].nodes[nodei].font
             IN  writeFont(s1, neti, nodei, [font EXCEPT !.pointSize = fontPointSize])

setNodeFontColorRGB(s, neti, nodei, r, g, b) ==
    LET s0 == [s EXCEPT !.errCode = 0]
    IN  IF neti \notin DOMAIN s0.networkDict
        THEN raiseError(s0, -5)
        ELSE IF nodei \notin DOMAIN s0.networkDict[neti].nodes
        THEN raiseError(s0, -7)
        ELSE IF r < 0 \/ r > 255 \/ g < 0 \/ g > 255 \/ b < 0 \/ b > 255
        THEN raiseError(s0, -12)
        ELSE LET s1 == pushUndoStack(s0)
                 font == s1.networkDict[neti].nodes[nodei].font
             IN  writeFont(s1, neti, nodei,
                           [font EXCEPT !.color = swappedRGB(@, r, g, b)])

setNodeFontColorAlpha(s, neti, nodei, a) ==
    LET s0 == [s EXCEPT !.errCode = 0]
    IN  IF neti \notin DOMAIN s0.networkDict
        THEN raiseError(s0, -5)
        ELSE IF nodei \notin DOMAIN s0.networkDict[neti].nodes
        THEN raiseError(s0, -7)
        ELSE IF lessThan(a, 0) \/ greaterThan(a, 1)
        THEN raiseError(s0, -12)
        ELSE LET s1 == pushUndoStack(s0)
                 font == s1.networkDict[neti].nodes[nodei].font
             IN  IF a.nan
                 THEN raiseOnly(s1, "ValueError")
                 ELSE writeFont(s1, neti, nodei,
                                [font EXCEPT !.color = swappedA(@, toInt255(a))])

---------------------------------------------------------------------------
(* Reactions.                                                              *)

\* set(q) of a list q
ToSet(q) == {q[i] : i \in 1..Len(q)}

\* an addReaction that does not index the products
netAddReactionSrcOnly(net, rea) ==
    LET idx == net.lastReactionIdx
        srcs == DOMAIN rea.reactants
    IN  [net EXCEPT
            !.reactions = Put(@, idx, rea),
            !.srcMap = [j \in DOMAIN @ \cup srcs |->
                           IF j \in srcs THEN Get(@, j) \cup {idx} ELSE @[j]],
            !.lastReactionIdx = @ + 1]

\* an addReaction that leaves the reaction counter where it is
netAddReactionKeepsCounter(net, rea) ==
    LET idx == net.lastReactionIdx
        srcs == DOMAIN rea.reactants
        dests == DOMAIN rea.products
    IN  [net EXCEPT
            !.reactions = Put(@, idx, rea),
            !.srcMap = [j \in DOMAIN @ \cup srcs |->
                           IF j \in srcs THEN Get(@, j) \cup {idx} ELSE @[j]],
            !.destMap = [j \in DOMAIN @ \cup dests |->
                           IF j \in dests THEN Get(@, j) \cup {idx} ELSE @[j]]]

\* TNetwork.addReaction
netAddReaction(net, rea) ==
    LET idx == net.lastReactionIdx
        srcs == DOMAIN rea.reactants
        dests == DOMAIN rea.products
    IN  [net EXCEPT
            !.reactions = Put(@, idx, rea),
            !.srcMap = [j \in DOMAIN @ \cup srcs |->
                           IF j \in srcs THEN Get(@, j) \cup {idx} ELSE @[j]],
            !.destMap = [j \in DOMAIN @ \cup dests |->
                           IF j \in dests THEN Get(@, j) \cup {idx} ELSE @[j]],
            !.lastReactionIdx = @ + 1]

\* a createReaction that does not compare the two node sets
createReactionAnySets(s, neti, reaID, sources, targets) ==
    LET s0 == [s EXCEPT !.errCode = 0]
    IN  IF Len(sources) = 0 \/ Len(targets) = 0
        THEN raiseOnly(s0, "ValueError")
        ELSE IF neti \notin DOMAIN s0.networkDict
        THEN raiseOnly(s0, "NetIndexError")
        ELSE LET net == s0.networkDict[neti]
             IN  IF \E i \in DOMAIN net.reactions : net.reactions[i].id = reaID
                 THEN raiseError(s0, -3)
                 ELSE IF \E nodei \in ToSet(sources) \cup ToSet(targets) :
                            nodei \notin DOMAIN net.nodes
                 THEN raiseError(s0, -7)
                 ELSE LET s1 == pushUndoStack(s0)
                          newReact ==
                              TReaction(reaID,
                                        [n \in ToSet(sources) |-> TSpeciesNode(1)],
                                        [n \in ToSet(targets) |-> TSpeciesNode(1)])
                      IN  [s1 EXCEPT !.networkDict[neti] = netAddReaction(net, newReact)]

createReaction(s, neti, reaID, sources, targets) ==
    LET s0 == [s EXCEPT !.errCode = 0]
    IN  IF Len(sources) = 0 \/ Len(targets) = 0
        THEN raiseOnly(s0, "ValueError")
        ELSE IF neti \notin DOMAIN s0.networkDict
        THEN raiseOnly(s0, "NetIndexError")
        ELSE LET net == s0.networkDict[neti]
             IN  IF \E i \in DOMAIN net.reactions : net.reactions[i].id = reaID
                 THEN raiseError(s0, -3)
                 ELSE IF \E nodei \in ToSet(sources) : nodei \notin DOMAIN net.nodes
                 THEN raiseError(s0, -7)
                 ELSE IF \E nodei \in ToSet(targets) : nodei \notin DOMAIN net.nodes
                 THEN raiseError(s0, -7)
                 ELSE IF ToSet(sources) = ToSet(targets)
                 THEN raiseOnly(s0, "ValueError")
                 ELSE LET s1 == pushUndoStack(s0)
                          newReact ==
                              TReaction(reaID,
                                        [n \in ToSet(sources) |-> TSpeciesNode(1)],
                                        [n \in ToSet(targets) |-> TSpeciesNode(1)])
                      IN  [s1 EXCEPT !.networkDict[neti] = netAddReaction(net, newReact)]

\* removals that remove nothing
keepAll(m, keys, reai) == m

\* the removals of deleteReaction: set.remove raises KeyError on an index that
\* is not in the set
removeAll(m, keys, reai) ==
    [j \in {k \in DOMAIN m : k \notin keys \/ m[k] # {reai}} |-> m[j] \ 
        (IF j \in keys THEN {reai} ELSE {})]

deleteReaction(s, neti, reai) ==
    LET s0 == [s EXCEPT !.errCode = 0]
    IN  IF neti \notin DOMAIN s0.networkDict
        THEN raiseError(s0, -5)
        ELSE IF reai \notin DOMAIN s0.networkDict[neti].reactions
        THEN raiseError(s0, -6)
        ELSE LET s1 == pushUndoStack(s0)
                 net == s1.networkDict[neti]
                 reaction == net.reactions[reai]
                 srcs == DOMAIN reaction.reactants
                 dests == DOMAIN reaction.products
                 net1 == [net EXCEPT !.srcMap = removeAll(@, srcs, reai),
                                     !.destMap = removeAll(@, dests, reai)]
             IN  IF /\ \A n \in srcs : reai \in Get(net.srcMap, n)
                    /\ \A n \in dests : reai \in Get(net.destMap, n)
                 THEN [s1 EXCEPT !.networkDict[neti] =
                                    [net1 EXCEPT !.reactions = Del(@, reai)]]
                 ELSE raiseOnly([s1 EXCEPT !.networkDict[neti] = net1], "KeyError")

clearReactions(s, neti) ==
    LET s0 == [s EXCEPT !.errCode = 0]
    IN  IF neti \notin DOMAIN s0.networkDict
        THEN raiseError(s0, -5)
        ELSE LET s1 == pushUndoStack(s0)
             IN  [s1 EXCEPT !.networkDict[neti] =
                     [@ EXCEPT !.reactions = EmptyMap, !.srcMap = EmptyMap,
                               !.destMap = EmptyMap]]

setReactionID(s, neti, reai, newID) ==
    LET s0 == [s EXCEPT !.errCode = 0]
    IN  IF neti \notin DOMAIN s0.networkDict
        THEN raiseError(s0, -5)
        ELSE LET reactions == s0.networkDict[neti].reactions
             IN  IF reai \notin DOMAIN reactions
                 THEN raiseError(s0, -6)
                 ELSE IF \E r \in DOMAIN reactions : reactions[r].id = newID
                 THEN raiseError(s0, -3)
                 ELSE LET s1 == pushUndoStack(s0)
                      IN  [s1 EXCEPT !.networkDict[neti].reactions[reai].id = newID]

\* getReactionIndex, for a network that exists: the index it returns, the
\* first reaction of the dict (kept in index order) that has the id, or None
getReactionIndex(s, neti, reaID) ==
    LET reactions == s.networkDict[neti].reactions
        found == {i \in DOMAIN reactions : reactions[i].id = reaID}
    IN  IF found = {} THEN None
        ELSE CHOOSE i \in found : \A j \in found : i <= j

setReactionSrcNodeStoich(s, neti, reai, srcNodeIdx, newStoich) ==
    LET s0 == [s EXCEPT !.errCode = 0]
    IN  IF neti \notin DOMAIN s0.networkDict
        THEN raiseError(s0, -5)
        ELSE LET net == s0.networkDict[neti]
             IN  IF reai \notin DOMAIN net.reactions
                 THEN raiseError(s0, -6)
                 ELSE IF srcNodeIdx \notin DOMAIN net.nodes
                 THEN raiseError(s0, -7)
                 ELSE IF srcNodeIdx \notin DOMAIN net.reactions[reai].reactants
                 THEN raiseOnly(s0, "ValueError")
                 ELSE IF newStoich <= 0
                 THEN raiseError(s0, -8)
                 ELSE LET s1 == pushUndoStack(s0)
                      IN  [s1 EXCEPT !.networkDict[neti].reactions[reai]
                                         .reactants[srcNodeIdx].stoich = newStoich]

setReactionDestNodeStoich(s, neti, reai, destNodeIdx, newStoich) ==
    LET s0 == [s EXCEPT !.errCode = 0]
    IN  IF neti \notin DOMAIN s0.networkDict
        THEN raiseError(s0, -5)
        ELSE LET net == s0.networkDict[neti]
             IN  IF reai \notin DOMAIN net.reactions
                 THEN raiseError(s0, -6)
                 ELSE IF destNodeIdx \notin DOMAIN net.nodes
                 THEN raiseError(s0, -7)
                 ELSE IF destNodeIdx \notin DOMAIN net.reactions[reai].products
                 THEN raiseOnly(s0, "ValueError")
                 ELSE IF newStoich <= 0
                 THEN raiseError(s0, -8)
                 ELSE LET s1 == pushUndoStack(s0)
                      IN  [s1 EXCEPT !.networkDict[neti].reactions[reai]
                                         .products[destNodeIdx].stoich = newStoich]

setRateLaw(s, neti, reai, rateLaw) ==
    LET s0 == [s EXCEPT !.errCode = 0]
    IN  IF neti \notin DOMAIN s0.networkDict
        THEN raiseError(s0, -5)
        ELSE IF reai \notin DOMAIN s0.networkDict[neti].reactions
        THEN raiseError(s0, -6)
        ELSE LET s1 == pushUndoStack(s0)
             IN  [s1 EXCEPT !.networkDict[neti].reactions[reai].rateLaw = rateLaw]

---------------------------------------------------------------------------
(* The compound recipes.  An exception leaves the recipe at the call that  *)
(* raised it: the calls after it, endGroup() included, are not made.       *)

\* the stoichiometry calls of a recipe, in the order of the sequence calls
\* of <<"src" or "dest", node index, stoichiometry>>; the first call that
\* raises ends the sequence
RECURSIVE setStoichs(_, _, _, _)
setStoichs(s, neti, reai, calls) ==
    IF calls = <<>> \/ s.raised # "none"
    THEN s
    ELSE LET c == Head(calls)
         IN  setStoichs(IF c[1] = "src"
                        THEN setReactionSrcNodeStoich(s, neti, reai, c[2], c[3])
                        ELSE setReactionDestNodeStoich(s, neti, reai, c[2], c[3]),
                        neti, reai, Tail(calls))

\* startGroup(); createReaction(neti, reaID, sources, targets);
\* reai = getReactionIndex(neti, reaID); the stoichiometry calls;
\* setRateLaw(neti, reai, rateLaw); endGroup()
recipe(s, neti, reaID, rateLaw, sources, targets, calls) ==
    LET s1 == createReaction(startGroup(s), neti, reaID, sources, targets)
        reai == getReactionIndex(s1, neti, reaID)
        s2 == setStoichs(s1, neti, reai, calls)
        s3 == setRateLaw(s2, neti, reai, rateLaw)
    IN  IF s1.raised # "none" THEN s1
        ELSE IF s2.raised # "none" THEN s2
        ELSE IF s3.raised # "none" THEN s3
        ELSE endGroup(s3)

createUniUni(s, neti, reaID, rateLaw, srci, desti, srcStoich, destStoich) ==
    recipe(s, neti, reaID, rateLaw, <<srci>>, <<desti>>,
           <<<<"src", srci, srcStoich>>, <<"dest", desti, destStoich>>>>)

CreateUniBi(s, neti, reaID, rateLaw, srci, dest1i, dest2i, srcStoich, dest1Stoich, dest2Stoich) ==
    recipe(s, neti, reaID, rateLaw, <<srci>>, <<dest1i, dest2i>>,
           <<<<"src", srci, srcStoich>>, <<"dest", dest1i, dest1Stoich>>,
             <<"dest", dest2i, dest2Stoich>>>>)

CreateBiUni(s, neti, reaID, rateLaw, src1i, src2i, desti, src1Stoich, src2Stoich, destStoich) ==
    recipe(s, neti, reaID, rateLaw, <<src1i, src2i>>, <<desti>>,
           <<<<"src", src1i, src1Stoich>>, <<"src", src2i, src2Stoich>>,
             <<"dest", desti, destStoich>>>>)

CreateBiBi(s, neti, reaID, rateLaw, src1i, src2i, dest1i, dest2i, src1Stoich, src2Stoich, dest1Stoich, dest2Stoich) ==
    recipe(s, neti, reaID, rateLaw, <<src1i, src2i>>, <<dest1i, dest2i>>,
           <<<<"src", src1i, src1Stoich>>, <<"src", src2i, src2Stoich>>,
             <<"dest", dest1i, dest1Stoich>>, <<"dest", dest2i, dest2Stoich>>>>)

setReactionCenterPos(s, neti, reai, centerPos) ==
    IF neti \notin DOMAIN s.networkDict
    THEN raiseOnly(s, "NetIndexError")
    ELSE IF reai \notin DOMAIN s.networkDict[neti].reactions
    THEN raiseError(s, -6)
    ELSE [s EXCEPT !.networkDict[neti].reactions[reai].centerPos = centerPos]

---------------------------------------------------------------------------
(* Compartments.  None of these functions resets errCode on entry.         *)

\* TNetwork.addCompartment
netAddCompartment(net, comp) ==
    [net EXCEPT !.compartments = Put(@, net.lastCompartmentIdx, comp),
                !.lastCompartmentIdx = @ + 1]

addCompartment(s, neti, compID, x, y, w, h) ==
    IF x < 0 \/ y < 0 \/ w < 0 \/ h < 0
    THEN raiseError(s, -12)
    ELSE IF neti \notin DOMAIN s.networkDict
    THEN raiseOnly(s, "NetIndexError")
    ELSE LET net == s.networkDict[neti]
         IN  IF \E c \in DOMAIN net.compartments : net.compartments[c].id = compID
             THEN raiseError(s, -3)
             ELSE LET s1 == pushUndoStack(s)
                  IN  [s1 EXCEPT !.networkDict[neti] =
                          netAddCompartment(net, TCompartment(compID, <<x, y>>, <<w, h>>))]

\* a deleteCompartment that deletes the member nodes with the compartment
deleteCompartmentWithNodes(s, neti, compi) ==
    IF neti \notin DOMAIN s.networkDict
    THEN raiseOnly(s, "NetIndexError")
    ELSE IF compi \notin DOMAIN s.networkDict[neti].compartments
    THEN raiseError(s, -13)
    ELSE LET s1 == pushUndoStack(s)
             net == s1.networkDict[neti]
             members == net.compartments[compi].node_indices
         IN  [s1 EXCEPT !.networkDict =
                 renamed([@ EXCEPT ![neti] =
                             [net EXCEPT !.nodes = [j \in DOMAIN @ \ members |-> @[j]],
                                         !.compartments = Del(@, compi)]],
                         FALSE)]

\* the loop over node_indices visits the indices in ascending order (the
\* order of a set of small ints); it stops at the first member that is not
\* a node (KeyError) or whose compi is another one (AssertionError)
deleteCompartment(s, neti, compi) ==
    IF neti \notin DOMAIN s.networkDict
    THEN raiseOnly(s, "NetIndexError")
    ELSE IF compi \notin DOMAIN s.networkDict[neti].compartments
    THEN raiseError(s, -13)
    ELSE LET s1 == pushUndoStack(s)
             net == s1.networkDict[neti]
             members == net.compartments[compi].node_indices
             good(j) == j \in DOMAIN net.nodes /\ net.nodes[j].compi = compi
             moved == {j \in members : \A k \in members : k <= j => good(k)}
             net1 == [net EXCEPT
                         !.nodes = [j \in DOMAIN @ |->
                                       IF j \in moved
                                       THEN [@[j] EXCEPT !.compi = -1]
                                       ELSE @[j]],
                         !.baseNodes = @ \cup moved]
         IN  IF moved = members
             THEN [s1 EXCEPT !.networkDict[neti] =
                                [net1 EXCEPT !.compartments = Del(@, compi)]]
             ELSE raiseOnly([s1 EXCEPT !.networkDict[neti] = net1],
                            IF \E j \in members \ moved :
                                  /\ j \notin DOMAIN net.nodes
                                  /\ \A k \in members \ moved : j <= k
                            THEN "KeyError"
                            ELSE "AssertionError")

setCompartmentOfNode(s, neti, nodei, compi) ==
    IF neti \notin DOMAIN s.networkDict
    THEN raiseOnly(s, "NetIndexError")
    ELSE IF nodei \notin DOMAIN s.networkDict[neti].nodes
    THEN raiseError(s, -7)
    ELSE LET s1 == pushUndoStack(s)
             net == s1.networkDict[neti]
             old == net.nodes[nodei].compi
         IN  IF removeFails(net, old, nodei)
             THEN raiseOnly(s1, "KeyError")
             ELSE LET net1 == withMember(net, old, nodei, FALSE)
                  IN  IF compi # -1 /\ compi \notin DOMAIN net1.compartments
                      THEN \* _getCompartment, after the removal
                           raiseError([s1 EXCEPT !.networkDict[neti] = net1], -13)
                      ELSE [s1 EXCEPT !.networkDict[neti] =
                              [withMember(net1, compi, nodei, TRUE)
                                  EXCEPT !.nodes[nodei].compi = compi]]

\* _pushUndoStack(); _getCompartment(neti, compi).<attr> = value
setCompartmentAttr(s, neti, compi, attr, value) ==
    LET s1 == pushUndoStack(s)
    IN  IF neti \notin DOMAIN s1.networkDict
        THEN raiseOnly(s1, "NetIndexError")
        ELSE IF compi \notin DOMAIN s1.networkDict[neti].compartments
        THEN raiseError(s1, -13)
        ELSE [s1 EXCEPT !.networkDict[neti].compartments[compi][attr] = value]

setCompartmentPosition(s, neti, compi, x, y) ==
    IF x < 0 \/ y < 0
    THEN raiseError(s, -12)
    ELSE setCompartmentAttr(s, neti, compi, "position", <<x, y>>)

setCompartmentSize(s, neti, compi, w, h) ==
    IF w < 0 \/ h < 0
    THEN raiseError(s, -12)
    ELSE setCompartmentAttr(s, neti, compi, "rectSize", <<w, h>>)

setCompartmentVolume(s, neti, compi, volume) ==
    setCompartmentAttr(s, neti, compi, "volume", volume)

setCompartmentID(s, neti, compi, id) ==
    setCompartmentAttr(s, neti, compi, "id", id)

setCompartmentFillColor(s, neti, compi, color) ==
    setCompartmentAttr(s, neti, compi, "fillColor", color)

setCompartmentOutlineColor(s, neti, compi, color) ==
    setCompartmentAttr(s, neti, compi, "outlineColor", color)

setCompartmentOutlineThickness(s, neti, compi, thickness) ==
    setCompartmentAttr(s, neti, compi, "outlineThickness", thickness)

---------------------------------------------------------------------------
(* The registry of networks, and serialization.                            *)

\* getErrorCode: the value it returns
getErrorCode(s) == s.errCode

deleteNetwork(s, neti) ==
    LET s0 == [s EXCEPT !.errCode = 0]
    IN  IF neti \notin DOMAIN s0.networkDict
        THEN raiseError(s0, -5)
        ELSE LET s1 == pushUndoStack(s0)
             IN  [s1 EXCEPT !.networkDict = renamed(Del(@, neti), FALSE)]

\* a clearNetworks that leaves the index counter where it is
clearNetworksKeepsCounter(s) ==
    [pushUndoStack([s EXCEPT !.errCode = 0]) EXCEPT !.networkDict = EmptyMap]

\* a clearNetworks that leaves the registry as it is
clearNetworksKeepsRegistry(s) ==
    [pushUndoStack([s EXCEPT !.errCode = 0]) EXCEPT !.lastNetIndex = 0]

clearNetworks(s) ==
    [pushUndoStack([s EXCEPT !.errCode = 0]) EXCEPT
        !.networkDict = EmptyMap, !.lastNetIndex = 0]

\* _addNetwork: errCode is written only when the id is taken
addNetwork(s, network) ==
    IF \E i \in DOMAIN s.networkDict : s.networkDict[i].id = network.id
    THEN raiseError(s, -3)
    ELSE LET s1 == pushUndoStack(s)
         IN  [s1 EXCEPT !.networkDict = Put(@, s1.lastNetIndex, network),
                        !.lastNetIndex = @ + 1]

\* max(d.keys(), default=-1) + 1
nextKey(d) ==
    IF DOMAIN d = {} THEN 0
    ELSE (CHOOSE k \in DOMAIN d : \A j \in DOMAIN d : j <= k) + 1

\* TNetwork.__init__(id, nodes, reactions, compartments): baseNodes are the
\* nodes whose compi is truthy (any value but 0), the maps come from a scan
\* of the reactions, the counters from the largest keys
TNetworkInit(id, nodes, reactions, compartments) ==
    LET srcs == UNION {DOMAIN reactions[r].reactants : r \in DOMAIN reactions}
        dests == UNION {DOMAIN reactions[r].products : r \in DOMAIN reactions}
    IN  [id |-> id, nodes |-> nodes, reactions |-> reactions,
         compartments |-> compartments,
         baseNodes |-> {i \in DOMAIN nodes : nodes[i].compi # 0},
         srcMap |-> [n \in srcs |->
                       {r \in DOMAIN reactions : n \in DOMAIN reactions[r].reactants}],
         destMap |-> [n \in dests |->
                       {r \in DOMAIN reactions : n \in DOMAIN reactions[r].products}],
         lastNodeIdx |-> nextKey(nodes),
         lastReactionIdx |-> nextKey(reactions),
         lastCompartmentIdx |-> nextKey(compartments)]

\* Color._serialize: the alpha is left out when it is 255
dumpColor(value) ==
    IF value.a # 255
    THEN <<value.r, value.g, value.b, value.a>>
    ELSE <<value.r, value.g, value.b>>

\* Color._deserialize of a valid list: TColor(*value), a defaults to 255
loadColor(value) ==
    TColor(value[1], value[2], value[3], IF Len(value) = 4 THEN value[4] ELSE 255)

\* Color._deserialize: 3 or 4 values, each between 0 and 255
validColor(value) ==
    /\ Len(value) \in {3, 4}
    /\ \A k \in 1..Len(value) : value[k] >= 0 /\ value[k] <= 255

\* Dim2._serialize: (value.x, value.y)
dumpDim2(value) == <<value[1], value[2]>>

\* Dim2._deserialize: Vec2(value) of a list of length 2
loadDim2(value) == <<value[1], value[2]>>

\* NodeSchema.dump: the schema field `compartment` is no attribute of TNode
\* (the attribute is compi) and the font has no field, so neither is dumped
dumpNode(node) ==
    [id |-> node.id, position |-> dumpDim2(node.position),
     rectSize |-> dumpDim2(node.rectSize), floating |-> node.floating,
     fillColor |-> dumpColor(node.fillColor),
     outlineColor |-> dumpColor(node.outlineColor),
     outlineThickness |-> node.outlineThickness]

\* NodeSchema.load: TNode(**data); compi and font take the class defaults
loadNode(data, font) ==
    [TNode(data.id, loadDim2(data.position), loadDim2(data.rectSize),
           data.floating, font)
        EXCEPT !.fillColor = loadColor(data.fillColor),
               !.outlineColor = loadColor(data.outlineColor),
               !.outlineThickness = data.outlineThickness]

\* SpeciesNode.dump / load
dumpSpecies(sp) == [stoich |-> sp.stoich, handlePos |-> dumpDim2(sp.handlePos)]

loadSpecies(data) ==
    [TSpeciesNode(data.stoich) EXCEPT !.handlePos = loadDim2(data.handlePos)]

\* ReactionSchema.dump: centerPos and bezierCurves have no field
dumpReaction(rea) ==
    [id |-> rea.id, rateLaw |-> rea.rateLaw,
     reactants |-> [n \in DOMAIN rea.reactants |-> dumpSpecies(rea.reactants[n])],
     products |-> [n \in DOMAIN rea.products |-> dumpSpecies(rea.products[n])],
     fillColor |-> dumpColor(rea.fillColor), thickness |-> rea.thickness,
     centerHandlePos |-> dumpDim2(rea.centerHandlePos)]

\* ReactionSchema.load: TReaction(**data)
loadReaction(data) ==
    [TReaction(data.id,
               [n \in DOMAIN data.reactants |-> loadSpecies(data.reactants[n])],
               [n \in DOMAIN data.products |-> loadSpecies(data.products[n])])
        EXCEPT !.rateLaw = data.rateLaw,
               !.fillColor = loadColor(data.fillColor),
               !.thickness = data.thickness,
               !.centerHandlePos = loadDim2(data.centerHandlePos)]

\* CompartmentSchema.dump: the schema field `nodes` is no attribute of
\* TCompartment (the attribute is node_indices), so it is not dumped
dumpCompartment(comp) ==
    [id |-> comp.id, position |-> dumpDim2(comp.position),
     rectSize |-> dumpDim2(comp.rectSize), volume |-> comp.volume,
     fillColor |-> dumpColor(comp.fillColor),
     outlineColor |-> dumpColor(comp.outlineColor),
     outlineThickness |-> comp.outlineThickness]

\* CompartmentSchema.load: TCompartment(**data); node_indices takes its
\* default, a new empty set
loadCompartment(data) ==
    [TCompartment(data.id, loadDim2(data.position), loadDim2(data.rectSize))
        EXCEPT !.volume = data.volume,
               !.fillColor = loadColor(data.fillColor),
               !.outlineColor = loadColor(data.outlineColor),
               !.outlineThickness = data.outlineThickness]

\* net_schema.dump(net)
dumpSchema(net) ==
    [id |-> net.id,
     nodes |-> [i \in DOMAIN net.nodes |-> dumpNode(net.nodes[i])],
     reactions |-> [i \in DOMAIN net.reactions |-> dumpReaction(net.reactions[i])],
     compartments |-> [i \in DOMAIN net.compartments |->
                          dumpCompartment(net.compartments[i])]]

\* the validators of the schemas: colours in range, Dim fields not negative
validObject(obj) ==
    /\ \A i \in DOMAIN obj.nodes :
          /\ validColor(obj.nodes[i].fillColor)
          /\ validColor(obj.nodes[i].outlineColor)
          /\ obj.nodes[i].outlineThickness >= 0
    /\ \A i \in DOMAIN obj.reactions :
          /\ validColor(obj.reactions[i].fillColor)
          /\ obj.reactions[i].thickness >= 0
    /\ \A i \in DOMAIN obj.compartments :
          /\ validColor(obj.compartments[i].fillColor)
          /\ validColor(obj.compartments[i].outlineColor)
          /\ obj.compartments[i].outlineThickness >= 0
          /\ obj.compartments[i].volume >= 0

\* net_schema.load(net_object) of a valid object; font is the class default
\* of TNode.font as it is at the time of the call
loadSchema(obj, font) ==
    TNetworkInit(obj.id,
                 [i \in DOMAIN obj.nodes |-> loadNode(obj.nodes[i], font)],
                 [i \in DOMAIN obj.reactions |-> loadReaction(obj.reactions[i])],
                 [i \in DOMAIN obj.compartments |->
                     loadCompartment(obj.compartments[i])])

\* dumpNetwork: the object it returns (None when it raises NetIndexError,
\* which _getNetwork does with a local errCode)
dumpNetwork(s, neti) ==
    IF neti \notin DOMAIN s.networkDict THEN None
    ELSE dumpSchema(s.networkDict[neti])

loadNetwork(s, net_object) ==
    IF ~validObject(net_object)
    THEN raiseOnly(s, "ValidationError")
    ELSE addNetwork(clearNetworks(s), loadSchema(net_object, s.defaultFont))

---------------------------------------------------------------------------
(* The state machine.                                                      *)

\* the module-level state as a call finds it
St ==
    [networkDict |-> networkDict, netSetStack |-> netSetStack,
     redoStack |-> redoStack, stackFlag |-> stackFlag, errCode |-> errCode,
     lastNetIndex |-> lastNetIndex, defaultFont |-> defaultFont,
     raised |-> "none"]

\* the calls of the model create only entities that its calls can address
Addressable(r) ==
    /\ DOMAIN r.networkDict \subseteq NetArgs
    /\ \A i \in DOMAIN r.networkDict :
          /\ DOMAIN r.networkDict[i].nodes \subseteq NodeArgs
          /\ DOMAIN r.networkDict[i].reactions \subseteq ReaArgs
          /\ DOMAIN r.networkDict[i].compartments \subseteq CompArgs

\* the group window: opened by a startGroup in Idle mode, it counts the
\* successful mutating calls until the next endGroup and remembers the
\* registry and the undo stack height the startGroup found; a startGroup
\* called while a group is open remembers the undo stack height it found
NoGroup == [phase |-> "none"]

Mutators ==
    {"newNetwork", "clearNetwork", "addNode", "deleteNode", "setNodeID",
     "setNodeCoordinate", "setNodeSize", "setNodeFillColorRGB",
     "setNodeFillColorAlpha", "setNodeOutlineColorRGB",
     "setNodeOutlineColorAlpha", "setNodeOutlineThickness",
     "setNodeFontPointSize", "setNodeFontColorRGB", "setNodeFontColorAlpha",
     "createReaction", "setReactionID",
     "deleteReaction", "clearReactions", "setReactionCenterPos",
     "setReactionSrcNodeStoich", "setReactionDestNodeStoich", "setRateLaw",
     "createUniUni", "CreateUniBi", "CreateBiUni", "CreateBiBi",
     "deleteNetwork", "clearNetworks", "loadNetwork",
     "addCompartment", "deleteCompartment", "setCompartmentOfNode",
     "setCompartmentPosition", "setCompartmentSize", "setCompartmentVolume",
     "setCompartmentID", "setCompartmentFillColor",
     "setCompartmentOutlineColor", "setCompartmentOutlineThickness"}

grpAfter(name, r) ==
    CASE name = "startGroup" ->
            IF stackFlag
            THEN [phase |-> "open", n |-> 0, base |-> networkDict,
                  height |-> Len(netSetStack)]
            ELSE [phase |-> "reopened", height |-> Len(netSetStack)]
      [] name = "endGroup" ->
            IF grp.phase = "open" /\ grp.n >= 1
            THEN [grp EXCEPT !.phase = "closed"]
            ELSE NoGroup
      [] name = "undo" ->
            IF grp.phase = "closed" /\ r.raised = "none"
            THEN [grp EXCEPT !.phase = "undone"]
            ELSE NoGroup
      [] name \in Mutators ->
            IF grp.phase = "open"
            THEN IF r.raised = "none" /\ grp.n < MaxGroupCalls
                 THEN [grp EXCEPT !.n = @ + 1]
                 ELSE grp
            ELSE NoGroup
      [] OTHER -> NoGroup

\* the undo/redo pair: a successful undo remembers the registry it found,
\* the redo called right after it closes the pair
NoPair == [phase |-> "none"]

pairAfter(name, r) ==
    CASE name = "undo" /\ r.raised = "none" ->
            [phase |-> "undone", before |-> networkDict]
      [] name = "redo" /\ pair.phase = "undone" ->
            [phase |-> "redone", before |-> pair.before]
      [] OTHER -> NoPair

\* the call `name` takes the state to r; maxStack bounds the undo stack
Call(maxStack, name, r) ==
    /\ Len(r.netSetStack) <= maxStack
    /\ Addressable(r)
    /\ networkDict' = r.networkDict
    /\ netSetStack' = r.netSetStack
    /\ redoStack' = r.redoStack
    /\ stackFlag' = r.stackFlag
    /\ errCode' = r.errCode
    /\ lastNetIndex' = r.lastNetIndex
    /\ defaultFont' = r.defaultFont
    /\ op' = name
    /\ raised' = r.raised
    /\ grp' = grpAfter(name, r)
    /\ pair' = pairAfter(name, r)
    /\ UNCHANGED evVars

Init ==
    /\ networkDict = EmptyMap
    /\ netSetStack = <<>>
    /\ redoStack = <<>>
    /\ stackFlag = TRUE
    /\ errCode = 0
    /\ lastNetIndex = 0
    /\ defaultFont = TFont
    /\ op = "none"
    /\ raised = "none"
    /\ grp = NoGroup
    /\ pair = NoPair
    /\ handlerNodes = EmptyMap
    /\ event_chains = EmptyMap
    /\ handler_map = EmptyMap
    /\ handler_id = 0
    /\ posted = [op |-> "none", id |-> -1, evt |-> "", raised |-> "none",
                 ret |-> -1, called |-> <<>>, bound |-> {}, issued |-> {}]

Undo(b) == Call(b, "undo", undo(St))

Redo(b) == Call(b, "redo", redo(St))

StartGroup(b) == Call(b, "startGroup", startGroup(St))

EndGroup(b) == Call(b, "endGroup", endGroup(St))

NewNetwork(b) == \E id \in NetIDs : Call(b, "newNetwork", newNetwork(St, id))

ClearNetwork(b) ==
    \E neti \in NetArgs : Call(b, "clearNetwork", clearNetwork(St, neti))

AddNode(b, ids) ==
    \E neti \in NetArgs, id \in ids, g \in AddGeoms :
        Call(b, "addNode", addNode(St, neti, id, g[1], g[2], g[3], g[4]))

DeleteNode(b) ==
    \E neti \in NetArgs, nodei \in NodeArgs :
        Call(b, "deleteNode", deleteNode(St, neti, nodei))

SetNodeID(b) ==
    \E neti \in NetArgs, nodei \in NodeArgs, id \in NodeIDs :
        Call(b, "setNodeID", setNodeID(St, neti, nodei, id))

SetNodeCoordinate(b) ==
    \E neti \in NetArgs, nodei \in NodeArgs, c \in Coords, allow \in BOOLEAN :
        Call(b, "setNodeCoordinate",
             setNodeCoordinate(St, neti, nodei, c[1], c[2], allow))

SetNodeSize(b) ==
    \E neti \in NetArgs, nodei \in NodeArgs, z \in Sizes :
        Call(b, "setNodeSize", setNodeSize(St, neti, nodei, z[1], z[2]))

SetNodeFillColorRGB(b) ==
    \E neti \in NetArgs, nodei \in NodeArgs, c \in RGBs :
        Call(b, "setNodeFillColorRGB",
             setNodeFillColorRGB(St, neti, nodei, c[1], c[2], c[3]))

SetNodeFillColorAlpha(b) ==
    \E neti \in NetArgs, nodei \in NodeArgs, a \in Alphas :
        Call(b, "setNodeFillColorAlpha", setNodeFillColorAlpha(St, neti, nodei, a))

SetNodeOutlineColorRGB(b) ==
    \E neti \in NetArgs, nodei \in NodeArgs, c \in RGBs :
        Call(b, "setNodeOutlineColorRGB",
             setNodeOutlineColorRGB(St, neti, nodei, c[1], c[2], c[3]))

SetNodeOutlineColorAlpha(b) ==
    \E neti \in NetArgs, nodei \in NodeArgs, a \in Alphas :
        Call(b, "setNodeOutlineColorAlpha",
             setNodeOutlineColorAlpha(St, neti, nodei, a))

SetNodeFontPointSize(b) ==
    \E neti \in NetArgs, nodei \in NodeArgs, z \in PointSizes :
        Call(b, "setNodeFontPointSize", setNodeFontPointSize(St, neti, nodei, z))

SetNodeFontColorRGB(b) ==
    \E neti \in NetArgs, nodei \in NodeArgs, c \in RGBs :
        Call(b, "setNodeFontColorRGB",
             setNodeFontColorRGB(St, neti, nodei, c[1], c[2], c[3]))

SetNodeFontColorAlpha(b) ==
    \E neti \in NetArgs, nodei \in NodeArgs, a \in Alphas :
        Call(b, "setNodeFontColorAlpha", setNodeFontColorAlpha(St, neti, nodei, a))

SetNodeOutlineThickness(b) ==
    \E neti \in NetArgs, nodei \in NodeArgs, t \in Thicknesses :
        Call(b, "setNodeOutlineThickness",
             setNodeOutlineThickness(St, neti, nodei, t))

CreateReaction(b, ids, lists) ==
    \E neti \in NetArgs, id \in ids, sources \in lists, targets \in lists :
        Call(b, "createReaction", createReaction(St, neti, id, sources, targets))

DeleteReaction(b) ==
    \E neti \in NetArgs, reai \in ReaArgs :
        Call(b, "deleteReaction", deleteReaction(St, neti, reai))

ClearReactions(b) ==
    \E neti \in NetArgs : Call(b, "clearReactions", clearReactions(St, neti))

SetReactionID(b) ==
    \E neti \in NetArgs, reai \in ReaArgs, id \in ReaIDs :
        Call(b, "setReactionID", setReactionID(St, neti, reai, id))

SetReactionCenterPos(b) ==
    \E neti \in NetArgs, reai \in ReaArgs, c \in CenterPositions :
        Call(b, "setReactionCenterPos", setReactionCenterPos(St, neti, reai, c))

AddCompartment(b, ids) ==
    \E neti \in NetArgs, id \in ids, g \in CompGeoms :
        Call(b, "addCompartment", addCompartment(St, neti, id, g[1], g[2], g[3], g[4]))

DeleteCompartment(b) ==
    \E neti \in NetArgs, compi \in CompArgs :
        Call(b, "deleteCompartment", deleteCompartment(St, neti, compi))

SetCompartmentOfNode(b) ==
    \E neti \in NetArgs, nodei \in NodeArgs, compi \in CompArgs :
        Call(b, "setCompartmentOfNode", setCompartmentOfNode(St, neti, nodei, compi))

SetCompartmentPosition(b) ==
    \E neti \in NetArgs, compi \in CompArgs, c \in CompCoords :
        Call(b, "setCompartmentPosition",
             setCompartmentPosition(St, neti, compi, c[1], c[2]))

SetCompartmentSize(b) ==
    \E neti \in NetArgs, compi \in CompArgs, c \in CompCoords :
        Call(b, "setCompartmentSize", setCompartmentSize(St, neti, compi, c[1], c[2]))

SetCompartmentVolume(b) ==
    \E neti \in NetArgs, compi \in CompArgs, v \in Volumes :
        Call(b, "setCompartmentVolume", setCompartmentVolume(St, neti, compi, v))

SetCompartmentID(b) ==
    \E neti \in NetArgs, compi \in CompArgs, id \in CompIDs :
        Call(b, "setCompartmentID", setCompartmentID(St, neti, compi, id))

SetCompartmentFillColor(b) ==
    \E neti \in NetArgs, compi \in CompArgs :
        Call(b, "setCompartmentFillColor",
             setCompartmentFillColor(St, neti, compi, TColor(1, 2, 3, 255)))

SetCompartmentOutlineColor(b) ==
    \E neti \in NetArgs, compi \in CompArgs :
        Call(b, "setCompartmentOutlineColor",
             setCompartmentOutlineColor(St, neti, compi, TColor(1, 2, 3, 255)))

SetCompartmentOutlineThickness(b) ==
    \E neti \in NetArgs, compi \in CompArgs, th \in Thicknesses :
        Call(b, "setCompartmentOutlineThickness",
             setCompartmentOutlineThickness(St, neti, compi, th))

RecipeUniUni(b, ids) ==
    \E neti \in NetArgs, id \in ids, law \in RateLaws,
       srci \in NodeArgs, desti \in NodeArgs,
       srcStoich \in Stoichs, destStoich \in Stoichs :
        Call(b, "createUniUni",
             createUniUni(St, neti, id, law, srci, desti, srcStoich, destStoich))

RecipeUniBi(b, ids) ==
    \E neti \in NetArgs, id \in ids, law \in RateLaws,
       srci \in NodeArgs, dest1i \in NodeArgs, dest2i \in NodeArgs,
       srcStoich \in Stoichs, dest1Stoich \in Stoichs, dest2Stoich \in Stoichs :
        Call(b, "CreateUniBi",
             CreateUniBi(St, neti, id, law, srci, dest1i, dest2i,
                         srcStoich, dest1Stoich, dest2Stoich))

RecipeBiUni(b, ids) ==
    \E neti \in NetArgs, id \in ids, law \in RateLaws,
       src1i \in NodeArgs, src2i \in NodeArgs, desti \in NodeArgs,
       src1Stoich \in Stoichs, src2Stoich \in Stoichs, destStoich \in Stoichs :
        Call(b, "CreateBiUni",
             CreateBiUni(St, neti, id, law, src1i, src2i, desti,
                         src1Stoich, src2Stoich, destStoich))

RecipeBiBi(b, ids) ==
    \E neti \in NetArgs, id \in ids, law \in RateLaws,
       src1i \in NodeArgs, src2i \in NodeArgs,
       dest1i \in NodeArgs, dest2i \in NodeArgs,
       src1Stoich \in Stoichs, src2Stoich \in Stoichs,
       dest1Stoich \in Stoichs, dest2Stoich \in Stoichs :
        Call(b, "CreateBiBi",
             CreateBiBi(St, neti, id, law, src1i, src2i, dest1i, dest2i,
                        src1Stoich, src2Stoich, dest1Stoich, dest2Stoich))

DeleteNetwork(b) ==
    \E neti \in NetArgs : Call(b, "deleteNetwork", deleteNetwork(St, neti))

ClearNetworks(b) == Call(b, "clearNetworks", clearNetworks(St))

\* an object written by hand: one node, nothing else
HandWritten ==
    [id |-> "net2",
     nodes |-> [i \in {0} |->
                  [id |-> "A", position |-> <<0, 0>>, rectSize |-> <<10, 10>>,
                   floating |-> FALSE, fillColor |-> <<255, 150, 80>>,
                   outlineColor |-> <<255, 100, 80, 128>>,
                   outlineThickness |-> 3]],
     reactions |-> EmptyMap, compartments |-> EmptyMap]

\* the objects loadNetwork is called with: the dump of a network of the
\* registry, or the hand-written one
LoadObjects ==
    {dumpNetwork(St, neti) : neti \in DOMAIN networkDict} \cup {HandWritten}

LoadNetwork(b) ==
    \E obj \in LoadObjects : Call(b, "loadNetwork", loadNetwork(St, obj))

(* The entity graph under undo and redo, every call in Idle mode.          *)
Next ==
    \/ Undo(MaxStack)
    \/ Redo(MaxStack)
    \/ NewNetwork(MaxStack)
    \/ AddNode(MaxStack, NodeIDs)
    \/ DeleteNode(MaxStack)
    \/ CreateReaction(MaxStack, {"r1"}, NodeLists)
    \/ DeleteReaction(MaxStack)
    \/ ClearReactions(MaxStack)
    \/ SetReactionCenterPos(MaxStack)

Spec == Init /\ [][Next]_vars

(* The undo/redo engine with its group flag.                               *)
NextGroup ==
    \/ Undo(MaxGroupStack)
    \/ Redo(MaxGroupStack)
    \/ StartGroup(MaxGroupStack)
    \/ EndGroup(MaxGroupStack)
    \/ NewNetwork(MaxGroupStack)
    \/ ClearNetwork(MaxGroupStack)
    \/ AddNode(MaxGroupStack, {"A"})
    \/ DeleteNode(MaxGroupStack)

SpecGroup == Init /\ [][NextGroup]_vars

(* The field setters of a node.                                            *)
NextNodes ==
    \/ Undo(MaxSetterStack)
    \/ Redo(MaxSetterStack)
    \/ NewNetwork(MaxSetterStack)
    \/ AddNode(MaxSetterStack, {"A"})
    \/ SetNodeID(MaxSetterStack)
    \/ SetNodeCoordinate(MaxSetterStack)
    \/ SetNodeSize(MaxSetterStack)
    \/ SetNodeFillColorRGB(MaxSetterStack)
    \/ SetNodeFillColorAlpha(MaxSetterStack)
    \/ SetNodeOutlineColorRGB(MaxSetterStack)
    \/ SetNodeOutlineColorAlpha(MaxSetterStack)
    \/ SetNodeOutlineThickness(MaxSetterStack)
    \/ SetNodeFontPointSize(MaxSetterStack)
    \/ SetNodeFontColorRGB(MaxSetterStack)
    \/ SetNodeFontColorAlpha(MaxSetterStack)

SpecNodes == Init /\ [][NextNodes]_vars

(* Nodes and reactions, their creation, renaming and deletion under undo  *)
(* and redo.                                                               *)
NextReactions ==
    \/ Undo(MaxReaStack)
    \/ Redo(MaxReaStack)
    \/ NewNetwork(MaxReaStack)
    \/ AddNode(MaxReaStack, NodeIDs)
    \/ DeleteNode(MaxReaStack)
    \/ SetNodeID(MaxReaStack)
    \/ CreateReaction(MaxReaStack, ReaIDs, {<<0>>, <<1>>})
    \/ DeleteReaction(MaxReaStack)
    \/ ClearReactions(MaxReaStack)
    \/ SetReactionID(MaxReaStack)

SpecReactions == Init /\ [][NextReactions]_vars

(* Nodes and compartments: membership of the nodes, in Idle mode and in a *)
(* group.                                                                  *)
NextCompartments ==
    \/ StartGroup(MaxCompStack)
    \/ NewNetwork(MaxCompStack)
    \/ AddNode(MaxCompStack, NodeIDs)
    \/ DeleteNode(MaxCompStack)
    \/ AddCompartment(MaxCompStack, CompIDs)
    \/ DeleteCompartment(MaxCompStack)
    \/ SetCompartmentOfNode(MaxCompStack)

SpecCompartments == Init /\ [][NextCompartments]_vars

(* The field setters of a compartment.                                     *)
NextCompSetters ==
    \/ Undo(MaxCompSetterStack)
    \/ Redo(MaxCompSetterStack)
    \/ NewNetwork(MaxCompSetterStack)
    \/ AddCompartment(MaxCompSetterStack, CompIDs)
    \/ SetCompartmentPosition(MaxCompSetterStack)
    \/ SetCompartmentSize(MaxCompSetterStack)
    \/ SetCompartmentVolume(MaxCompSetterStack)
    \/ SetCompartmentID(MaxCompSetterStack)
    \/ SetCompartmentFillColor(MaxCompSetterStack)
    \/ SetCompartmentOutlineColor(MaxCompSetterStack)
    \/ SetCompartmentOutlineThickness(MaxCompSetterStack)

SpecCompSetters == Init /\ [][NextCompSetters]_vars

(* Nodes added and deleted in Idle mode and never undone: the undo stack  *)
(* holds the registry that each successful call found, oldest first.      *)
NextIndices ==
    \/ NewNetwork(MaxIndexStack)
    \/ AddNode(MaxIndexStack, NodeIDs)
    \/ DeleteNode(MaxIndexStack)

SpecIndices == Init /\ [][NextIndices]_vars

(* The compound recipes on a network that is built in Idle mode and never *)
(* undone: a recipe that raises leaves its group open.                     *)
NextRecipes ==
    \/ NewNetwork(MaxRecipeStack)
    \/ AddNode(MaxRecipeStack, NodeIDs)
    \/ RecipeUniUni(MaxRecipeStack, {"r1"})
    \/ RecipeUniBi(MaxRecipeStack, {"r1"})
    \/ RecipeBiUni(MaxRecipeStack, {"r1"})
    \/ RecipeBiBi(MaxRecipeStack, {"r1"})

SpecRecipes == Init /\ [][NextRecipes]_vars

(* The registry of networks, dump and load, on networks with nodes,       *)
(* reactions and compartments built in Idle mode.                          *)
NextSerial ==
    \/ NewNetwork(MaxSerialStack)
    \/ DeleteNetwork(MaxSerialStack)
    \/ ClearNetworks(MaxSerialStack)
    \/ LoadNetwork(MaxSerialStack)
    \/ AddNode(MaxSerialStack, NodeIDs)
    \/ CreateReaction(MaxSerialStack, {"r1"}, {<<0>>, <<1>>})
    \/ AddCompartment(MaxSerialStack, {"c1"})
    \/ SetCompartmentOfNode(MaxSerialStack)

SpecSerial == Init /\ [][NextSerial]_vars

(* Groups opened twice and closed once around nodes and reactions, never  *)
(* undone.                                                                 *)
NextFlag ==
    \/ StartGroup(MaxFlagStack)
    \/ EndGroup(MaxFlagStack)
    \/ NewNetwork(MaxFlagStack)
    \/ AddNode(MaxFlagStack, NodeIDs)
    \/ CreateReaction(MaxFlagStack, {"r1"}, {<<0>>, <<1>>})
    \/ DeleteReaction(MaxFlagStack)
    \/ SetReactionCenterPos(MaxFlagStack)

SpecFlag == Init /\ [][NextFlag]_vars

---------------------------------------------------------------------------
(* Properties.  A call leaves the state as it was when the registry, both  *)
(* stacks, the group flag and the module-level counters are what the call  *)
(* found.                                                                  *)

LeavesAll(r) ==
    /\ r.networkDict = networkDict
    /\ r.netSetStack = netSetStack
    /\ r.redoStack = redoStack
    /\ r.stackFlag = stackFlag
    /\ r.lastNetIndex = lastNetIndex
    /\ r.defaultFont = defaultFont

\* deep equality of two registries: equal attribute by attribute, with the
\* same nodes sharing a font object
DeepEqual(a, b) == deepcopy(a) = deepcopy(b)

\* C1: a group opened by startGroup() in Idle mode and closed by endGroup(),
\* with one or more successful mutating calls (and any failed ones) between
\* them, leaves exactly one more snapshot on the undo stack than startGroup
\* found, at every point of the group and after it; the undo() called after
\* endGroup takes the undo stack back to the height startGroup found and
\* makes the registry deeply equal to the registry startGroup found.
GroupIsOneUndoStep ==
    /\ grp.phase \in {"open", "closed"} => Len(netSetStack) = grp.height + 1
    /\ grp.phase = "undone" =>
          /\ Len(netSetStack) = grp.height
          /\ DeepEqual(networkDict, grp.base)

\* a group of two or more successful calls has been undone in one step, and
\* the registry the undo replaced differs from the one it restored
GroupUndone ==
    /\ grp.phase = "undone"
    /\ grp.n >= 2
    /\ redoStack # <<>>
    /\ ~DeepEqual(top(redoStack), networkDict)

\* C2: whenever redo() is called right after a successful undo(), it raises
\* nothing and the registry is deeply equal to the registry that undo()
\* found.
UndoThenRedoRestores ==
    pair.phase = "redone" =>
        /\ raised = "none"
        /\ DeepEqual(networkDict, pair.before)

\* undo() then redo() have run on a registry that holds a node
UndoRedoDone ==
    /\ pair.phase = "redone"
    /\ \E i \in DOMAIN networkDict : networkDict[i].nodes # EmptyMap
    /\ redoStack # <<>>

\* C3: in every reachable state, undo() on an empty undo stack raises
\* StackEmptyError and leaves the registry and both stacks as they were;
\* on a non-empty undo stack it raises nothing, the redo stack gains a deep
\* copy of the current registry, the top of the undo stack becomes the
\* registry and leaves the undo stack.
UndoContract ==
    LET r == undo(St)
    IN  IF netSetStack = <<>>
        THEN r.raised = "StackEmptyError" /\ LeavesAll(r)
        ELSE /\ r.raised = "none"
             /\ r.redoStack = Append(redoStack, deepcopy(networkDict))
             /\ r.networkDict = netSetStack[Len(netSetStack)]
             /\ r.netSetStack = SubSeq(netSetStack, 1, Len(netSetStack) - 1)

\* undo() has been called on an empty undo stack with calls left to redo
UndoOnEmptyStack ==
    /\ op = "undo"
    /\ raised = "StackEmptyError"
    /\ netSetStack = <<>>
    /\ redoStack # <<>>

\* C4: in every reachable state, redo() on an empty redo stack raises
\* StackEmptyError and leaves the registry and both stacks as they were; on a
\* non-empty redo stack it raises nothing, the undo stack gains a deep copy
\* of the current registry, the top of the redo stack becomes the registry
\* and leaves the redo stack.
RedoContract ==
    LET r == redo(St)
    IN  IF redoStack = <<>>
        THEN r.raised = "StackEmptyError" /\ LeavesAll(r)
        ELSE /\ r.raised = "none"
             /\ r.netSetStack = Append(netSetStack, deepcopy(networkDict))
             /\ r.networkDict = redoStack[Len(redoStack)]
             /\ r.redoStack = SubSeq(redoStack, 1, Len(redoStack) - 1)

\* redo() has raised the exception of an earlier failed call: only an empty
\* redo stack sets an error code in redo(), and that code is StackEmptyError
RedoRaisedStaleError ==
    /\ op = "redo"
    /\ raised \notin {"none", "StackEmptyError"}

\* the results of the mutating calls of the entity graph in the current state
GraphCalls ==
    {newNetwork(St, id) : id \in NetIDs}
    \cup {clearNetwork(St, neti) : neti \in NetArgs}
    \cup {addNode(St, neti, id, g[1], g[2], g[3], g[4]) :
              neti \in NetArgs, id \in NodeIDs, g \in AddGeoms}
    \cup {deleteNode(St, neti, nodei) : neti \in NetArgs, nodei \in NodeArgs}
    \cup {createReaction(St, neti, id, sources, targets) :
              neti \in NetArgs, id \in ReaIDs,
              sources \in NodeLists, targets \in NodeLists}
    \cup {deleteReaction(St, neti, reai) : neti \in NetArgs, reai \in ReaArgs}
    \cup {clearReactions(St, neti) : neti \in NetArgs}
    \cup {setReactionCenterPos(St, neti, reai, c) :
              neti \in NetArgs, reai \in ReaArgs, c \in CenterPositions}

\* C5: in every reachable state in Idle mode, each mutating call that
\* succeeds leaves the undo stack one snapshot higher, that snapshot being a
\* deep copy of the registry the call found, and leaves the redo stack empty.
IdleCallPushesOneSnapshot ==
    stackFlag =>
        \A r \in GraphCalls :
            r.raised = "none" =>
                /\ r.netSetStack = Append(netSetStack, deepcopy(networkDict))
                /\ r.redoStack = <<>>

\* setReactionCenterPos has succeeded in Idle mode and the redo stack still
\* holds the calls undone before it
CenterPosKeptRedoStack ==
    /\ op = "setReactionCenterPos"
    /\ raised = "none"
    /\ stackFlag
    /\ redoStack # <<>>

\* C6: a startGroup() called while a group is open leaves the undo stack at
\* the height it found.
StartGroupIdempotent ==
    grp.phase = "reopened" => Len(netSetStack) = grp.height

\* a startGroup() called while a group was open has pushed a snapshot
StartGroupPushedAgain ==
    /\ grp.phase = "reopened"
    /\ Len(netSetStack) = grp.height + 1

\* C7: in every reachable state, addNode with an id that a node of the
\* addressed network already has raises IDRepeatError and leaves the
\* registry (the nodes and the node counter of the network with it) and both
\* stacks as they were, whatever the geometry given.
AddNodeRepeatedId ==
    \A neti \in DOMAIN networkDict, id \in NodeIDs, g \in AddGeoms :
        (\E j \in DOMAIN networkDict[neti].nodes :
            networkDict[neti].nodes[j].id = id)
        => LET r == addNode(St, neti, id, g[1], g[2], g[3], g[4])
           IN  r.raised = "IDRepeatError" /\ LeavesAll(r)

\* addNode has been refused for a repeated id
AddNodeRefused ==
    /\ op = "addNode"
    /\ raised = "IDRepeatError"
    /\ \E i \in DOMAIN networkDict : Cardinality(DOMAIN networkDict[i].nodes) = 1

\* the reactions of a network that have node nodei as reactant or product
ReactionsOf(net, nodei) ==
    {reai \in DOMAIN net.reactions :
        nodei \in DOMAIN net.reactions[reai].reactants
                  \cup DOMAIN net.reactions[reai].products}

\* C8: in every reachable state, deleteNode on a node that is a reactant or a
\* product of a reaction of its network raises NodeNotFreeError and leaves
\* the registry and both stacks as they were.
DeleteNodeInReaction ==
    \A neti \in DOMAIN networkDict :
        \A nodei \in DOMAIN networkDict[neti].nodes :
            ReactionsOf(networkDict[neti], nodei) # {}
            => LET r == deleteNode(St, neti, nodei)
               IN  r.raised = "NodeNotFreeError" /\ LeavesAll(r)

\* deleteNode has been refused for a node of a reaction
DeleteNodeRefused ==
    /\ op = "deleteNode"
    /\ raised = "NodeNotFreeError"
    /\ \E i \in DOMAIN networkDict :
          \E j \in DOMAIN networkDict[i].nodes :
              ReactionsOf(networkDict[i], j) # {}

\* C9: in every reachable state, createReaction with an empty source list or
\* an empty target list, with a node index that is not a node of the
\* network, or with set(sources) = set(targets) raises an exception and
\* leaves the registry (reactions, srcMap, destMap and the reaction counter
\* with it) and both stacks as they were.
CreateReactionFailures ==
    \A neti \in NetArgs, id \in ReaIDs, sources \in NodeLists, targets \in NodeLists :
        LET r == createReaction(St, neti, id, sources, targets)
            missing ==
                /\ neti \in DOMAIN networkDict
                /\ \E n \in ToSet(sources) \cup ToSet(targets) :
                      n \notin DOMAIN networkDict[neti].nodes
        IN  (\/ Len(sources) = 0
             \/ Len(targets) = 0
             \/ missing
             \/ ToSet(sources) = ToSet(targets))
            => r.raised # "none" /\ LeavesAll(r)

\* createReaction has been refused for a node that does not exist, in a
\* network that has a node
CreateReactionRefused ==
    /\ op = "createReaction"
    /\ raised = "NodeIndexError"
    /\ \E i \in DOMAIN networkDict : networkDict[i].nodes # EmptyMap

\* a colour channel outside [0, 255]
BadChannel(c) == \E k \in 1..3 : c[k] < 0 \/ c[k] > 255

\* an alpha outside [0, 1]: a number below 0 or above 1, or no number at all
BadAlpha(a) == a.nan \/ a.twice < 0 \/ a.twice > 2

\* the results, in the current state, of the setter calls on node nodei of
\* network neti with a value outside the legal domain of the setter
OutOfRangeCalls(neti, nodei) ==
    {setNodeCoordinate(St, neti, nodei, c[1], c[2], FALSE) :
        c \in {c \in Coords : c[1] < 0 \/ c[2] < 0}}
    \cup {setNodeSize(St, neti, nodei, z[1], z[2]) :
              z \in {z \in Sizes : z[1] <= 0 \/ z[2] <= 0}}
    \cup {setNodeFillColorRGB(St, neti, nodei, c[1], c[2], c[3]) :
              c \in {c \in RGBs : BadChannel(c)}}
    \cup {setNodeOutlineColorRGB(St, neti, nodei, c[1], c[2], c[3]) :
              c \in {c \in RGBs : BadChannel(c)}}
    \cup {setNodeFontColorRGB(St, neti, nodei, c[1], c[2], c[3]) :
              c \in {c \in RGBs : BadChannel(c)}}
    \cup {setNodeFillColorAlpha(St, neti, nodei, a) :
              a \in {a \in Alphas : BadAlpha(a)}}
    \cup {setNodeOutlineColorAlpha(St, neti, nodei, a) :
              a \in {a \in Alphas : BadAlpha(a)}}
    \cup {setNodeFontColorAlpha(St, neti, nodei, a) :
              a \in {a \in Alphas : BadAlpha(a)}}
    \cup {setNodeOutlineThickness(St, neti, nodei, k) :
              k \in {k \in Thicknesses : k <= 0}}
    \cup {setNodeFontPointSize(St, neti, nodei, z) :
              z \in {z \in PointSizes : z <= 0}}

\* C10: in every reachable state, a node setter called on an existing node
\* with a value outside its legal domain raises ValueError (the exception of
\* error code -12, "Variable out of range") and leaves the registry and both
\* stacks as they were.
SettersRejectOutOfRange ==
    \A neti \in DOMAIN networkDict :
        \A nodei \in DOMAIN networkDict[neti].nodes :
            \A r \in OutOfRangeCalls(neti, nodei) :
                r.raised = "ValueError" /\ LeavesAll(r)

\* an alpha setter has raised ValueError without the error code of
\* "Variable out of range": the exception comes from int(a * 255), after
\* the snapshot was pushed
AlphaSetterRaisedLate ==
    /\ op \in {"setNodeFillColorAlpha", "setNodeOutlineColorAlpha",
               "setNodeFontColorAlpha"}
    /\ raised = "ValueError"
    /\ errCode = 0
    /\ netSetStack # <<>>
    /\ top(netSetStack) = deepcopy(networkDict)

---------------------------------------------------------------------------
(* Compartments and the membership of the nodes.                           *)

\* the members of compartment compi: the indices in its node set
Members(net, compi) == net.compartments[compi].node_indices

\* C11: deleteCompartment of an existing compartment returns, removes the
\* compartment and deletes no node: every index of its node set is still a
\* node afterwards, is in baseNodes and has compi = -1 with its other
\* attributes as they were; every other node and every other compartment is
\* as it was.
DeleteCompartmentKeepsNodes ==
    \A neti \in DOMAIN networkDict :
        \A compi \in DOMAIN networkDict[neti].compartments :
            LET net == networkDict[neti]
                r == deleteCompartment(St, neti, compi)
                after == r.networkDict[neti]
            IN  /\ r.raised = "none"
                /\ DOMAIN after.compartments = DOMAIN net.compartments \ {compi}
                /\ DOMAIN after.nodes = DOMAIN net.nodes
                /\ \A j \in Members(net, compi) :
                      /\ j \in DOMAIN after.nodes
                      /\ j \in after.baseNodes
                      /\ after.nodes[j] = [net.nodes[j] EXCEPT !.compi = -1]
                /\ \A j \in DOMAIN net.nodes \ Members(net, compi) :
                      /\ after.nodes[j] = net.nodes[j]
                      /\ j \in after.baseNodes <=> j \in net.baseNodes
                /\ \A c \in DOMAIN after.compartments :
                      after.compartments[c] = net.compartments[c]

\* a network with a node in each of two compartments, where deleting
\* compartment 0 moves its node to baseNodes and leaves the other node in
\* compartment 1
CompartmentWithMemberDeleted ==
    /\ 0 \in DOMAIN networkDict
    /\ DOMAIN networkDict[0].compartments = {0, 1}
    /\ Members(networkDict[0], 0) = {0}
    /\ Members(networkDict[0], 1) = {1}
    /\ LET r == deleteCompartment(St, 0, 0)
       IN  /\ r.raised = "none"
           /\ r.networkDict[0].baseNodes = {0}
           /\ r.networkDict[0].nodes[0].compi = -1
           /\ r.networkDict[0].nodes[1].compi = 1
           /\ Members(r.networkDict[0], 1) = {1}

---------------------------------------------------------------------------
(* The derived indices of the reactions.                                   *)

\* what a full scan of the reactions produces for node n: the reactions
\* that have n among the keys of their reactants
ScanSrc(net, n) ==
    {r \in DOMAIN net.reactions : n \in DOMAIN net.reactions[r].reactants}

\* the same for the keys of their products
ScanDest(net, n) ==
    {r \in DOMAIN net.reactions : n \in DOMAIN net.reactions[r].products}

\* the node indices that are a key of a map or of a reaction's endpoints,
\* with the node indices the calls can name
MapKeys(net) ==
    NodeArgs \cup DOMAIN net.srcMap \cup DOMAIN net.destMap
        \cup UNION {DOMAIN net.reactions[r].reactants \cup DOMAIN net.reactions[r].products :
                       r \in DOMAIN net.reactions}

\* srcMap and destMap of a network equal the scan of its reactions
MapsEqualScan(net) ==
    \A n \in MapKeys(net) :
        /\ Get(net.srcMap, n) = ScanSrc(net, n)
        /\ Get(net.destMap, n) = ScanDest(net, n)

\* C12: in every reachable state the srcMap and destMap of every network
\* equal the scan of its reactions (a key bound to the empty set is an
\* absent key), and deleteReaction of an existing reaction returns and
\* leaves no map entry that contains its index.
MapsAreDerived ==
    \A neti \in DOMAIN networkDict :
        /\ MapsEqualScan(networkDict[neti])
        /\ \A reai \in DOMAIN networkDict[neti].reactions :
              LET r == deleteReaction(St, neti, reai)
                  after == r.networkDict[neti]
              IN  /\ r.raised = "none"
                  /\ \A n \in MapKeys(networkDict[neti]) \cup MapKeys(after) :
                        /\ reai \notin Get(after.srcMap, n)
                        /\ reai \notin Get(after.destMap, n)

\* two reactions share their source node; deleting one of them leaves the
\* other one in the map entry of that node
ReactionDeletedFromSharedNode ==
    /\ 0 \in DOMAIN networkDict
    /\ DOMAIN networkDict[0].reactions = {0, 1}
    /\ \E n \in NodeArgs :
          /\ Get(networkDict[0].srcMap, n) = {0, 1}
          /\ LET r == deleteReaction(St, 0, 0)
             IN  /\ r.raised = "none"
                 /\ DOMAIN r.networkDict[0].reactions = {1}
                 /\ Get(r.networkDict[0].srcMap, n) = {1}

\* the containers of a network that hold node index j: -1 stands for
\* baseNodes, c for the node set of compartment c
ContainersOf(net, j) ==
    {c \in {-1} \cup DOMAIN net.compartments : j \in container(net, c)}

\* C13: in every reachable state each existing node index of a network is
\* in exactly one container among baseNodes and the node sets of the
\* compartments, that container is the one its compi names, and no
\* container holds an index that is not a node.
MembershipIsPartition ==
    \A neti \in DOMAIN networkDict :
        LET net == networkDict[neti]
        IN  /\ \A j \in DOMAIN net.nodes :
                  ContainersOf(net, j) = {net.nodes[j].compi}
            /\ \A c \in {-1} \cup DOMAIN net.compartments :
                  container(net, c) \subseteq DOMAIN net.nodes

\* setCompartmentOfNode has raised CompartmentIndexError and has left a
\* node of the network in no container at all
NodeInNoContainer ==
    /\ op = "setCompartmentOfNode"
    /\ raised = "CompartmentIndexError"
    /\ \E neti \in DOMAIN networkDict :
          \E j \in DOMAIN networkDict[neti].nodes :
              ContainersOf(networkDict[neti], j) = {}

\* the calls on nodes and compartments, with every argument tried
MembershipCalls ==
    {newNetwork(St, id) : id \in NetIDs}
    \cup {addNode(St, neti, id, g[1], g[2], g[3], g[4]) :
              neti \in NetArgs, id \in NodeIDs, g \in AddGeoms}
    \cup {deleteNode(St, neti, nodei) : neti \in NetArgs, nodei \in NodeArgs}
    \cup {addCompartment(St, neti, id, g[1], g[2], g[3], g[4]) :
              neti \in NetArgs, id \in CompIDs, g \in CompGeoms}
    \cup {deleteCompartment(St, neti, compi) : neti \in NetArgs, compi \in CompArgs}
    \cup {setCompartmentOfNode(St, neti, nodei, compi) :
              neti \in NetArgs, nodei \in NodeArgs, compi \in CompArgs}

\* C14: in every reachable state, a mutating call that raises leaves the
\* registry exactly as it found it; and setCompartmentOfNode of an existing
\* node with a compartment index that is neither -1 nor the index of an
\* existing compartment raises CompartmentIndexError and leaves the registry
\* (so the node's container and its compi) as it was.
ValidationPrecedesMutation ==
    /\ \A r \in MembershipCalls :
          r.raised # "none" => r.networkDict = networkDict
    /\ \A neti \in DOMAIN networkDict :
          \A nodei \in DOMAIN networkDict[neti].nodes :
              \A compi \in CompArgs \ ({-1} \cup DOMAIN networkDict[neti].compartments) :
                  LET r == setCompartmentOfNode(St, neti, nodei, compi)
                  IN  r.raised = "CompartmentIndexError" /\ r.networkDict = networkDict

\* node 0 is in compartment 0; moving it to compartment 1, which does not
\* exist, raises CompartmentIndexError and takes the node out of
\* compartment 0 all the same
FailedMoveChangedRegistry ==
    /\ 0 \in DOMAIN networkDict
    /\ 0 \in DOMAIN networkDict[0].nodes
    /\ DOMAIN networkDict[0].compartments = {0}
    /\ networkDict[0].nodes[0].compi = 0
    /\ 0 \in Members(networkDict[0], 0)
    /\ LET r == setCompartmentOfNode(St, 0, 0, 1)
       IN  /\ r.raised = "CompartmentIndexError"
           /\ r.networkDict # networkDict
           /\ 0 \notin Members(r.networkDict[0], 0)
           /\ r.networkDict[0].nodes[0].compi = 0

---------------------------------------------------------------------------
(* The compartment setters.                                                *)

\* the calls on compartments and their fields, with every argument tried
CompartmentCalls ==
    {addCompartment(St, neti, id, g[1], g[2], g[3], g[4]) :
        neti \in NetArgs, id \in CompIDs, g \in CompGeoms}
    \cup {deleteCompartment(St, neti, compi) : neti \in NetArgs, compi \in CompArgs}
    \cup {setCompartmentOfNode(St, neti, nodei, compi) :
              neti \in NetArgs, nodei \in NodeArgs, compi \in CompArgs}
    \cup {setCompartmentPosition(St, neti, compi, c[1], c[2]) :
              neti \in NetArgs, compi \in CompArgs, c \in CompCoords}
    \cup {setCompartmentSize(St, neti, compi, c[1], c[2]) :
              neti \in NetArgs, compi \in CompArgs, c \in CompCoords}
    \cup {setCompartmentVolume(St, neti, compi, v) :
              neti \in NetArgs, compi \in CompArgs, v \in Volumes}
    \cup {setCompartmentID(St, neti, compi, id) :
              neti \in NetArgs, compi \in CompArgs, id \in CompIDs}
    \cup {setCompartmentFillColor(St, neti, compi, TColor(1, 2, 3, 255)) :
              neti \in NetArgs, compi \in CompArgs}
    \cup {setCompartmentOutlineColor(St, neti, compi, TColor(1, 2, 3, 255)) :
              neti \in NetArgs, compi \in CompArgs}
    \cup {setCompartmentOutlineThickness(St, neti, compi, th) :
              neti \in NetArgs, compi \in CompArgs, th \in Thicknesses}

\* C15: in every reachable state, a mutating call that raises (unknown
\* network or entity index, out-of-range value, repeated id) leaves the undo
\* stack and the redo stack as it found them; the compartment calls and the
\* compartment setters are the calls tried.
RaisingCallKeepsStacks ==
    \A r \in CompartmentCalls \cup {newNetwork(St, id) : id \in NetIDs} :
        r.raised # "none" =>
            /\ r.netSetStack = netSetStack
            /\ r.redoStack = redoStack

\* in Idle mode with an undone call on the redo stack, setCompartmentVolume
\* of a compartment that does not exist raises CompartmentIndexError, has
\* pushed a snapshot and has emptied the redo stack
SetterPushedBeforeRaising ==
    /\ stackFlag
    /\ redoStack # <<>>
    /\ 0 \in DOMAIN networkDict
    /\ 0 \notin DOMAIN networkDict[0].compartments
    /\ LET r == setCompartmentVolume(St, 0, 0, 2)
       IN  /\ r.raised = "CompartmentIndexError"
           /\ r.netSetStack = Append(netSetStack, deepcopy(networkDict))
           /\ r.redoStack = <<>>

---------------------------------------------------------------------------
(* Identifiers and indices.                                                *)

\* no two entities of the dict d (index -> entity) have the same id
UniqueIds(d) == \A i, j \in DOMAIN d : i # j => d[i].id # d[j].id

\* within each network of a registry no two nodes share an id and no two
\* reactions share an id
NodeAndReactionIdsUnique(netDict) ==
    \A neti \in DOMAIN netDict :
        UniqueIds(netDict[neti].nodes) /\ UniqueIds(netDict[neti].reactions)

\* the calls that create, rename and delete nodes and reactions, with undo
\* and redo, every argument tried
IdCalls ==
    {undo(St), redo(St)}
    \cup {addNode(St, neti, id, g[1], g[2], g[3], g[4]) :
              neti \in NetArgs, id \in NodeIDs, g \in AddGeoms}
    \cup {setNodeID(St, neti, nodei, id) :
              neti \in NetArgs, nodei \in NodeArgs, id \in NodeIDs}
    \cup {deleteNode(St, neti, nodei) : neti \in NetArgs, nodei \in NodeArgs}
    \cup {createReaction(St, neti, id, sources, targets) :
              neti \in NetArgs, id \in ReaIDs,
              sources \in NodeLists, targets \in NodeLists}
    \cup {setReactionID(St, neti, reai, id) :
              neti \in NetArgs, reai \in ReaArgs, id \in ReaIDs}
    \cup {deleteReaction(St, neti, reai) : neti \in NetArgs, reai \in ReaArgs}
    \cup {clearReactions(St, neti) : neti \in NetArgs}

\* C16: in every reachable state, within each network no two nodes share an
\* id and no two reactions share an id, and every call of addNode,
\* setNodeID, createReaction, setReactionID, the deletes, undo and redo
\* leaves the registry so.
IdsStayUnique ==
    /\ NodeAndReactionIdsUnique(networkDict)
    /\ \A r \in IdCalls : NodeAndReactionIdsUnique(r.networkDict)

\* a network holds two nodes and two reactions, and the renaming of a
\* reaction to the id of the other one has just been refused
RenameToTakenIdRefused ==
    /\ op = "setReactionID"
    /\ raised = "IDRepeatError"
    /\ 0 \in DOMAIN networkDict
    /\ DOMAIN networkDict[0].nodes = {0, 1}
    /\ DOMAIN networkDict[0].reactions = {0, 1}

\* C17: in every reachable state, addCompartment with the id of a
\* compartment of the network, and setCompartmentID of a compartment to the
\* id of another compartment of the network, raise IDRepeatError and leave
\* the registry and both stacks as they were; and no two compartments of a
\* network share an id.
CompartmentIdsStayUnique ==
    \A neti \in DOMAIN networkDict :
        LET comps == networkDict[neti].compartments
        IN  /\ UniqueIds(comps)
            /\ \A c \in DOMAIN comps :
                  LET r == addCompartment(St, neti, comps[c].id, 0, 0, 50, 50)
                  IN  r.raised = "IDRepeatError" /\ LeavesAll(r)
            /\ \A c, d \in DOMAIN comps :
                  c # d =>
                      LET r == setCompartmentID(St, neti, c, comps[d].id)
                      IN  r.raised = "IDRepeatError" /\ LeavesAll(r)

\* setCompartmentID has returned and two compartments of a network have the
\* same id
CompartmentIdRepeated ==
    /\ op = "setCompartmentID"
    /\ raised = "none"
    /\ \E neti \in DOMAIN networkDict : ~UniqueIds(networkDict[neti].compartments)

\* the node indices of network neti in the registry the call finds and in
\* the snapshots below it.  In Idle mode with no undo the undo stack holds
\* the registry every successful call found, so these are the indices
\* assigned so far.
IssuedIndices(neti) ==
    DOMAIN networkDict[neti].nodes
        \cup UNION {DOMAIN netSetStack[k][neti].nodes :
                       k \in {k \in 1..Len(netSetStack) : neti \in DOMAIN netSetStack[k]}}

\* C18: in every state reached by addNode and deleteNode calls on a network
\* (no undo), each addNode that succeeds adds one node under an index
\* strictly greater than every index assigned in that network before.
IndexNeverReissued ==
    \A neti \in DOMAIN networkDict, id \in NodeIDs, g \in AddGeoms :
        LET r == addNode(St, neti, id, g[1], g[2], g[3], g[4])
            added == DOMAIN r.networkDict[neti].nodes \ DOMAIN networkDict[neti].nodes
        IN  r.raised = "none" =>
                /\ Cardinality(added) = 1
                /\ DOMAIN networkDict[neti].nodes \subseteq DOMAIN r.networkDict[neti].nodes
                /\ \A j \in added : \A i \in IssuedIndices(neti) : j > i

\* node 0 was added and deleted, and the addNode that has just succeeded
\* gave its node the index 1
DeletedIndexNotReused ==
    /\ op = "addNode"
    /\ raised = "none"
    /\ 0 \in DOMAIN networkDict
    /\ DOMAIN networkDict[0].nodes = {1}
    /\ DOMAIN top(netSetStack)[0].nodes = {}
    /\ 0 \in IssuedIndices(0)

\* every key of the reactants and products of the reactions of a registry
\* is the index of a node of the same network
EndpointsExist(netDict) ==
    \A neti \in DOMAIN netDict :
        \A r \in DOMAIN netDict[neti].reactions :
            DOMAIN netDict[neti].reactions[r].reactants
                \cup DOMAIN netDict[neti].reactions[r].products
                    \subseteq DOMAIN netDict[neti].nodes

---------------------------------------------------------------------------
(* The order of the validations.                                           *)

\* the calls that take a network index, made with the index neti and
\* every other argument tried
CallsOnNetwork(neti) ==
    {clearNetwork(St, neti)}
    \cup {addNode(St, neti, id, g[1], g[2], g[3], g[4]) : id \in NodeIDs, g \in AddGeoms}
    \cup {deleteNode(St, neti, nodei) : nodei \in NodeArgs}
    \cup {setNodeID(St, neti, nodei, id) : nodei \in NodeArgs, id \in NodeIDs}
    \cup {setNodeCoordinate(St, neti, nodei, c[1], c[2], allow) :
              nodei \in NodeArgs, c \in Coords, allow \in BOOLEAN}
    \cup {setNodeSize(St, neti, nodei, z[1], z[2]) : nodei \in NodeArgs, z \in Sizes}
    \cup {setNodeFillColorRGB(St, neti, nodei, c[1], c[2], c[3]) :
              nodei \in NodeArgs, c \in RGBs}
    \cup {setNodeOutlineThickness(St, neti, nodei, k) :
              nodei \in NodeArgs, k \in Thicknesses}
    \cup {setNodeFontPointSize(St, neti, nodei, z) : nodei \in NodeArgs, z \in PointSizes}
    \cup {createReaction(St, neti, id, sources, targets) :
              id \in ReaIDs, sources \in NodeLists, targets \in NodeLists}
    \cup {deleteReaction(St, neti, reai) : reai \in ReaArgs}
    \cup {clearReactions(St, neti)}
    \cup {setReactionID(St, neti, reai, id) : reai \in ReaArgs, id \in ReaIDs}
    \cup {setReactionCenterPos(St, neti, reai, c) :
              reai \in ReaArgs, c \in CenterPositions}
    \cup {addCompartment(St, neti, id, g[1], g[2], g[3], g[4]) :
              id \in CompIDs, g \in CompGeoms}
    \cup {deleteCompartment(St, neti, compi) : compi \in CompArgs}
    \cup {setCompartmentOfNode(St, neti, nodei, compi) :
              nodei \in NodeArgs, compi \in CompArgs}
    \cup {setCompartmentPosition(St, neti, compi, c[1], c[2]) :
              compi \in CompArgs, c \in CompCoords}
    \cup {setCompartmentSize(St, neti, compi, c[1], c[2]) :
              compi \in CompArgs, c \in CompCoords}
    \cup {setCompartmentVolume(St, neti, compi, v) : compi \in CompArgs, v \in Volumes}
    \cup {setCompartmentID(St, neti, compi, id) : compi \in CompArgs, id \in CompIDs}

\* network indices tried that no network of the registry has
UnknownNets == {0, 1} \ DOMAIN networkDict

\* C20: in every reachable state, a call made with a network index that is
\* not registered raises NetIndexError whatever its other arguments are,
\* invalid ones included.
NetworkIsResolvedFirst ==
    \A neti \in UnknownNets :
        \A r \in CallsOnNetwork(neti) : r.raised = "NetIndexError"

\* no network is registered, and addCompartment, called with a negative
\* coordinate, has raised ValueError
RangeTestedBeforeNetwork ==
    /\ op = "addCompartment"
    /\ raised = "ValueError"
    /\ errCode = -12
    /\ networkDict = EmptyMap

---------------------------------------------------------------------------
(* The compound recipes.                                                   *)

\* what a recipe that returned r has done, as one transaction: one more
\* snapshot than it found, the group closed, a reaction more, and the
\* registry it found back after one undo()
OneTransaction(r) ==
    /\ Len(r.netSetStack) = Len(netSetStack) + 1
    /\ r.stackFlag
    /\ \E neti \in DOMAIN r.networkDict :
          /\ neti \in DOMAIN networkDict
          /\ Cardinality(DOMAIN r.networkDict[neti].reactions)
                = Cardinality(DOMAIN networkDict[neti].reactions) + 1
    /\ LET u == undo(r)
       IN  /\ u.raised = "none"
           /\ DeepEqual(u.networkDict, networkDict)
           /\ u.netSetStack = netSetStack
           /\ u.stackFlag

\* C21: a compound recipe (createUniUni, CreateUniBi, CreateBiUni,
\* CreateBiBi) that is called in Idle mode and returns is one transaction:
\* the undo stack is one snapshot higher, the engine is Idle again, and one
\* undo() gives back the registry the recipe found, without the reaction,
\* its stoichiometries and its rate law.
RecipeIsOneTransaction ==
    stackFlag =>
        \A neti \in NetArgs, id \in ReaIDs, law \in RateLaws,
           n1 \in NodeArgs, n2 \in NodeArgs, n3 \in NodeArgs, n4 \in NodeArgs,
           s1 \in Stoichs, s2 \in Stoichs, s3 \in Stoichs, s4 \in Stoichs :
            LET uu == createUniUni(St, neti, id, law, n1, n2, s1, s2)
                ub == CreateUniBi(St, neti, id, law, n1, n2, n3, s1, s2, s3)
                bu == CreateBiUni(St, neti, id, law, n1, n2, n3, s1, s2, s3)
                bb == CreateBiBi(St, neti, id, law, n1, n2, n3, n4, s1, s2, s3, s4)
            IN  /\ uu.raised = "none" => OneTransaction(uu)
                /\ ub.raised = "none" => OneTransaction(ub)
                /\ bu.raised = "none" => OneTransaction(bu)
                /\ bb.raised = "none" => OneTransaction(bb)

\* a network of two nodes built in Idle mode, on which CreateUniBi returns:
\* the reaction has the stoichiometries and the rate law of the call, and
\* the undo() after it finds no reaction
RecipeReturnedInIdleMode ==
    /\ stackFlag
    /\ op = "addNode"
    /\ raised = "none"
    /\ 0 \in DOMAIN networkDict
    /\ DOMAIN networkDict[0].nodes = {0, 1}
    /\ DOMAIN networkDict[0].reactions = {}
    /\ LET r == CreateUniBi(St, 0, "r1", "k1*A", 0, 1, 0, 2, 2, 2)
       IN  /\ r.raised = "none"
           /\ r.stackFlag
           /\ Len(r.netSetStack) = Len(netSetStack) + 1
           /\ DOMAIN r.networkDict[0].reactions = {0}
           /\ r.networkDict[0].reactions[0].rateLaw = "k1*A"
           /\ r.networkDict[0].reactions[0].reactants[0].stoich = 2
           /\ DOMAIN r.networkDict[0].reactions[0].products = {0, 1}
           /\ DOMAIN undo(r).networkDict[0].reactions = {}

\* what a recipe that raised (result r) must have left alone: the reactions
\* and the two maps of every network it found
NoPartialReaction(r) ==
    /\ DOMAIN r.networkDict = DOMAIN networkDict
    /\ \A neti \in DOMAIN networkDict :
          /\ r.networkDict[neti].reactions = networkDict[neti].reactions
          /\ r.networkDict[neti].srcMap = networkDict[neti].srcMap
          /\ r.networkDict[neti].destMap = networkDict[neti].destMap

\* C22: a compound recipe that raises leaves no visible partial state: no
\* reaction has been added to the network, and srcMap and destMap are as
\* the recipe found them.
FailedRecipeLeavesNothing ==
    \A neti \in NetArgs, id \in ReaIDs, law \in RateLaws,
       n1 \in NodeArgs, n2 \in NodeArgs, n3 \in NodeArgs, n4 \in NodeArgs,
       s1 \in Stoichs, s2 \in Stoichs, s3 \in Stoichs, s4 \in Stoichs :
        LET uu == createUniUni(St, neti, id, law, n1, n2, s1, s2)
            ub == CreateUniBi(St, neti, id, law, n1, n2, n3, s1, s2, s3)
            bu == CreateBiUni(St, neti, id, law, n1, n2, n3, s1, s2, s3)
            bb == CreateBiBi(St, neti, id, law, n1, n2, n3, n4, s1, s2, s3, s4)
        IN  /\ uu.raised # "none" => NoPartialReaction(uu)
            /\ ub.raised # "none" => NoPartialReaction(ub)
            /\ bu.raised # "none" => NoPartialReaction(bu)
            /\ bb.raised # "none" => NoPartialReaction(bb)

\* createUniUni has raised StoichError in Idle mode: the snapshot its
\* startGroup took has no reaction, the network has the new reaction with
\* its map entries, and the group is still open
FailedRecipeLeftReaction ==
    /\ op = "createUniUni"
    /\ raised = "StoichError"
    /\ errCode = -8
    /\ ~stackFlag
    /\ netSetStack # <<>>
    /\ 0 \in DOMAIN top(netSetStack)
    /\ DOMAIN top(netSetStack)[0].reactions = {}
    /\ DOMAIN networkDict[0].reactions = {0}
    /\ networkDict[0].reactions[0].rateLaw = ""
    /\ \E n \in NodeArgs : Get(networkDict[0].srcMap, n) = {0}
    /\ \E n \in NodeArgs : Get(networkDict[0].destMap, n) = {0}

---------------------------------------------------------------------------
(* The registry of networks and serialization.                             *)

\* the states loadNetwork and clearNetworks are called in: the state
\* reached, and the states one and two successful newNetwork calls further,
\* which have networks at indices the calls of the model do not address
PriorStates ==
    LET one == {newNetwork(St, id) : id \in {"net2", "net3"}}
        two == {newNetwork(s, id) : s \in one, id \in {"net2", "net3"}}
    IN  {St} \cup {s \in one \cup two : s.raised = "none"}

\* C23: a loadNetwork that returns leaves, whatever the registry was,
\* exactly one network in the registry, at index 0, and it is the network
\* built from the loaded object; the index _addNetwork assigned is the 0
\* that the call returns.
LoadReplacesRegistry ==
    \A s \in PriorStates :
        \A obj \in LoadObjects :
            LET r == loadNetwork(s, obj)
            IN  r.raised = "none" =>
                    /\ DOMAIN r.networkDict = {0}
                    /\ r.networkDict[0] = loadSchema(obj, s.defaultFont)
                    /\ r.networkDict[0].id = obj.id
                    /\ r.lastNetIndex - 1 = 0

\* the hand-written object has been loaded over a registry that held
\* network "net1" with a node: the undo stack holds that registry under the
\* empty one that _addNetwork found
LoadedOverNetwork ==
    /\ op = "loadNetwork"
    /\ raised = "none"
    /\ DOMAIN networkDict = {0}
    /\ networkDict[0].id = "net2"
    /\ DOMAIN networkDict[0].nodes = {0}
    /\ networkDict[0].nodes[0].outlineColor = TColor(255, 100, 80, 128)
    /\ lastNetIndex = 1
    /\ Len(netSetStack) >= 2
    /\ top(netSetStack) = EmptyMap
    /\ LET before == top(popped(netSetStack))
       IN  /\ DOMAIN before = {0}
           /\ before[0].id = "net1"
           /\ DOMAIN before[0].nodes = {0}

\* two networks have the same nodes, reactions and compartments field by
\* field, and the same base set
SameEntities(a, b) ==
    /\ a.id = b.id
    /\ a.nodes = b.nodes
    /\ a.reactions = b.reactions
    /\ a.compartments = b.compartments
    /\ a.baseNodes = b.baseNodes

\* C24: for every network reachable through the API,
\* loadNetwork(dumpNetwork(net)) returns and yields a network with the same
\* nodes, reactions and compartments field by field, the compartment of
\* every node, the node set of every compartment and the base set included.
RoundTripKeepsNetwork ==
    \A neti \in DOMAIN networkDict :
        LET r == loadNetwork(St, dumpNetwork(St, neti))
        IN  /\ r.raised = "none"
            /\ SameEntities(r.networkDict[0], networkDict[neti])

\* the dump of a network whose node 0 was in compartment 0 has been
\* loaded: the node is in no compartment and the compartment has no node
RoundTripLostMembership ==
    /\ op = "loadNetwork"
    /\ raised = "none"
    /\ Len(netSetStack) >= 2
    /\ LET before == top(popped(netSetStack))
       IN  /\ DOMAIN before = {0}
           /\ before[0].id = networkDict[0].id
           /\ DOMAIN before[0].nodes = {0}
           /\ before[0].nodes[0].compi = 0
           /\ DOMAIN before[0].compartments = {0}
           /\ before[0].compartments[0].node_indices = {0}
           /\ before[0].baseNodes = {}
    /\ DOMAIN networkDict[0].nodes = {0}
    /\ networkDict[0].nodes[0].compi = -1
    /\ networkDict[0].baseNodes = {0}
    /\ DOMAIN networkDict[0].compartments = {0}
    /\ networkDict[0].compartments[0].node_indices = {}

---------------------------------------------------------------------------
(* The error code.                                                         *)

\* C25: getErrorCode() returns the error code of the last API function
\* called, whatever the function and the history: 0 when it returned
\* normally, and when it raised the negative code of the exception
\* (-5 after NetIndexError, -13 after CompartmentIndexError).
ErrorCodeIsOfLastCall ==
    op # "none" =>
        IF raised = "none"
        THEN getErrorCode(St) = 0
        ELSE /\ getErrorCode(St) < 0
             /\ ExceptionDict(getErrorCode(St)) = raised

\* addNode has raised NetIndexError for a network that is not registered,
\* and getErrorCode() returns 0
NetIndexErrorLeftCodeZero ==
    /\ op = "addNode"
    /\ raised = "NetIndexError"
    /\ 0 \notin DOMAIN networkDict
    /\ getErrorCode(St) = 0

---------------------------------------------------------------------------
(* Nodes added to a new network.                                           *)

\* the sequences of distinct ids over a set of ids
DistinctSeqs(ids) ==
    {q \in UNION {[1..n -> ids] : n \in 0..Cardinality(ids)} :
        \A j \in DOMAIN q, k \in DOMAIN q : q[j] = q[k] => j = k}

\* addNode(neti, ids[1], ...); addNode(neti, ids[2], ...); ... with one
\* geometry, as far as the calls return
RECURSIVE addNodes(_, _, _, _)
addNodes(s, neti, ids, geom) ==
    IF ids = <<>> \/ s.raised # "none"
    THEN s
    ELSE addNodes(addNode(s, neti, Head(ids), geom[1], geom[2], geom[3], geom[4]),
                  neti, Tail(ids), geom)

\* a network, and its dump, have exactly the nodes of ids, indexed from 0
\* in the order of ids, no compartment, and every node unassigned
HasNodesInOrder(s, neti, ids) ==
    LET net == s.networkDict[neti]
        dump == dumpNetwork(s, neti)
    IN  /\ DOMAIN net.nodes = 0..(Len(ids) - 1)
        /\ \A k \in DOMAIN net.nodes :
              /\ net.nodes[k].id = ids[k + 1]
              /\ net.nodes[k].compi = -1
              /\ k \in net.baseNodes
        /\ net.baseNodes = DOMAIN net.nodes
        /\ DOMAIN net.compartments = {}
        /\ DOMAIN dump.nodes = 0..(Len(ids) - 1)
        /\ \A k \in DOMAIN dump.nodes : dump.nodes[k].id = ids[k + 1]
        /\ DOMAIN dump.compartments = {}

ClearNetworksResetsRegistry ==
    \A s \in PriorStates :
        LET c == clearNetworks(s)
        IN  /\ c.raised = "none"
            /\ DOMAIN c.networkDict = {}
            /\ c.lastNetIndex = 0
            /\ \A id \in NetIDs \cup {"net2", "net3"} :
                  LET n == newNetwork(c, id)
                  IN  /\ n.raised = "none"
                      /\ DOMAIN n.networkDict = {0}
                      /\ n.networkDict[0] = TNetwork(id)
                      /\ n.lastNetIndex = 1

\* newNetwork("net1") has returned after a clearNetworks() that removed a
\* network of the same id: the new network is at index 0 again, and the
\* undo stack holds the registry clearNetworks found under the empty one
\* that newNetwork found
NetworkRecreatedAtZero ==
    /\ op = "newNetwork"
    /\ raised = "none"
    /\ DOMAIN networkDict = {0}
    /\ networkDict[0] = TNetwork("net1")
    /\ lastNetIndex = 1
    /\ Len(netSetStack) >= 3
    /\ top(netSetStack) = EmptyMap
    /\ LET before == top(popped(netSetStack))
       IN  /\ DOMAIN before = {0}
           /\ before[0].id = "net1"

---------------------------------------------------------------------------
(* Group mode.                                                             *)

\* the results of the mutating calls of the entity graph in state s
GraphCallsFrom(s) ==
    {newNetwork(s, id) : id \in NetIDs}
    \cup {addNode(s, neti, id, g[1], g[2], g[3], g[4]) :
              neti \in NetArgs, id \in NodeIDs, g \in AddGeoms}
    \cup {deleteNode(s, neti, nodei) : neti \in NetArgs, nodei \in NodeArgs}
    \cup {createReaction(s, neti, id, sources, targets) :
              neti \in NetArgs, id \in ReaIDs,
              sources \in NodeLists, targets \in NodeLists}
    \cup {deleteReaction(s, neti, reai) : neti \in NetArgs, reai \in ReaArgs}
    \cup {setReactionCenterPos(s, neti, reai, c) :
              neti \in NetArgs, reai \in ReaArgs, c \in CenterPositions}

\* C28: group mode is a flag, not a nesting counter: after startGroup();
\* startGroup(); endGroup() the engine is Idle, so that the next mutating
\* call that succeeds pushes a snapshot and leaves the redo stack empty
\* with no second endGroup(); and endGroup() in Idle mode changes nothing.
GroupModeIsAFlag ==
    /\ LET e == endGroup(startGroup(startGroup(St)))
       IN  /\ e.stackFlag
           /\ \A r \in GraphCallsFrom(e) :
                 r.raised = "none" =>
                     /\ Len(r.netSetStack) = Len(e.netSetStack) + 1
                     /\ r.redoStack = <<>>
    /\ stackFlag => endGroup(St) = St

\* startGroup() has been called twice with no endGroup() between them, on
\* a network with a reaction: after one endGroup() the engine is Idle, and
\* the setReactionCenterPos that follows returns, changes the reaction and
\* leaves the undo stack at its height
NextCallPushedNothing ==
    /\ op = "startGroup"
    /\ grp.phase = "reopened"
    /\ ~stackFlag
    /\ 0 \in DOMAIN networkDict
    /\ 0 \in DOMAIN networkDict[0].reactions
    /\ LET e == endGroup(St)
           r == setReactionCenterPos(e, 0, 0, <<5, 5>>)
       IN  /\ e.stackFlag
           /\ r.raised = "none"
           /\ r.networkDict[0].reactions[0].centerPos = <<5, 5>>
           /\ e.networkDict[0].reactions[0].centerPos # <<5, 5>>
           /\ Len(r.netSetStack) = Len(e.netSetStack)

---------------------------------------------------------------------------
(* The reaction that createReaction adds.                                  *)

\* the lists createReaction is called with: those of the model, and lists
\* that name a node more than once
ListsWithRepeats == NodeLists \cup {<<0, 0>>, <<1, 0, 1>>, <<1, 1>>}

\* what createReaction(neti, reaID, sources, targets), returning, has made
\* of the network `before`
AddedOneReaction(before, after, reaID, sources, targets) ==
    LET idx == before.lastReactionIdx
    IN  /\ idx \notin DOMAIN before.reactions
        /\ DOMAIN after.reactions = DOMAIN before.reactions \cup {idx}
        /\ \A i \in DOMAIN before.reactions : after.reactions[i] = before.reactions[i]
        /\ after.lastReactionIdx = idx + 1
        /\ after.reactions[idx].id = reaID
        /\ DOMAIN after.reactions[idx].reactants = ToSet(sources)
        /\ DOMAIN after.reactions[idx].products = ToSet(targets)
        /\ \A n \in ToSet(sources) : after.reactions[idx].reactants[n].stoich = 1
        /\ \A n \in ToSet(targets) : after.reactions[idx].products[n].stoich = 1
        /\ after.reactions[idx].rateLaw = ""
        /\ \A n \in MapKeys(before) \cup MapKeys(after) :
              /\ Get(after.srcMap, n) =
                    Get(before.srcMap, n) \cup (IF n \in ToSet(sources) THEN {idx} ELSE {})
              /\ Get(after.destMap, n) =
                    Get(before.destMap, n) \cup (IF n \in ToSet(targets) THEN {idx} ELSE {})

\* C29: a createReaction(net, id, sources, targets) that returns adds
\* exactly one reaction, at the index that was the reaction counter, and
\* increments the counter; the keys of its reactants are set(sources) and
\* those of its products set(targets), every stoichiometry is 1, the rate
\* law is "", and the new index is in srcMap of every source and destMap
\* of every target.
CreateReactionAddsOne ==
    \A neti \in NetArgs, id \in ReaIDs,
       sources \in ListsWithRepeats, targets \in ListsWithRepeats :
        LET r == createReaction(St, neti, id, sources, targets)
        IN  r.raised = "none" =>
                AddedOneReaction(networkDict[neti], r.networkDict[neti],
                                 id, sources, targets)

\* reaction 0 has been deleted, so the counter is 1 and no reaction is
\* left; createReaction with the sources [0, 0] returns and the new
\* reaction is at index 1 with the one reactant 0
ReactionAddedAtCounter ==
    /\ op = "deleteReaction"
    /\ raised = "none"
    /\ 0 \in DOMAIN networkDict
    /\ DOMAIN networkDict[0].reactions = {}
    /\ networkDict[0].lastReactionIdx = 1
    /\ LET r == createReaction(St, 0, "r1", <<0, 0>>, <<1>>)
       IN  /\ r.raised = "none"
           /\ DOMAIN r.networkDict[0].reactions = {1}
           /\ DOMAIN r.networkDict[0].reactions[1].reactants = {0}
           /\ r.networkDict[0].lastReactionIdx = 2
           /\ Get(r.networkDict[0].srcMap, 0) = {1}
           /\ Get(r.networkDict[0].destMap, 1) = {1}

---------------------------------------------------------------------------
(* The index counters.                                                     *)

\* the results of the calls that delete or clear entities of a network
DeleteAndClearCalls ==
    {deleteNode(St, neti, nodei) : neti \in NetArgs, nodei \in NodeArgs}
    \cup {deleteReaction(St, neti, reai) : neti \in NetArgs, reai \in ReaArgs}
    \cup {deleteCompartment(St, neti, compi) : neti \in NetArgs, compi \in CompArgs}
    \cup {clearReactions(St, neti) : neti \in NetArgs}
    \cup {clearNetwork(St, neti) : neti \in NetArgs}

\* no counter of network `after` is below that of network `before`
CountersNotBelow(before, after) ==
    /\ after.lastNodeIdx >= before.lastNodeIdx
    /\ after.lastReactionIdx >= before.lastReactionIdx
    /\ after.lastCompartmentIdx >= before.lastCompartmentIdx

\* C30: the next-index counters of a network (nodes, reactions,
\* compartments) do not decrease under deleteNode, deleteReaction,
\* deleteCompartment, clearReactions or clearNetwork, so that an index used
\* before a delete or clear is not assigned again in that network.
CountersNeverDecrease ==
    \A r \in DeleteAndClearCalls :
        \A neti \in DOMAIN networkDict \cap DOMAIN r.networkDict :
            CountersNotBelow(networkDict[neti], r.networkDict[neti])

\* clearNetwork has returned in Idle mode on a network that had assigned
\* node index 0: the node counter is 0 again, and the next addNode gives
\* index 0 to another node
ClearNetworkResetCounter ==
    /\ op = "clearNetwork"
    /\ raised = "none"
    /\ stackFlag
    /\ netSetStack # <<>>
    /\ 0 \in DOMAIN top(netSetStack)
    /\ 0 \in DOMAIN top(netSetStack)[0].nodes
    /\ top(netSetStack)[0].lastNodeIdx >= 1
    /\ networkDict[0].lastNodeIdx = 0
    /\ LET r == addNode(St, 0, "B", 0, 0, 10, 10)
       IN  /\ r.raised = "none"
           /\ DOMAIN r.networkDict[0].nodes = {0}
           /\ r.networkDict[0].nodes[0].id # top(netSetStack)[0].nodes[0].id

---------------------------------------------------------------------------
(* Stoichiometry.                                                          *)

MaxStoichStack == 5

\* the stoichiometry arguments: a negative one, zero, a positive one
StoichArgs == {-1, 0, 2}

SetReactionSrcNodeStoich(b) ==
    \E neti \in NetArgs, reai \in ReaArgs, nodei \in NodeArgs, st \in StoichArgs :
        Call(b, "setReactionSrcNodeStoich",
             setReactionSrcNodeStoich(St, neti, reai, nodei, st))

SetReactionDestNodeStoich(b) ==
    \E neti \in NetArgs, reai \in ReaArgs, nodei \in NodeArgs, st \in StoichArgs :
        Call(b, "setReactionDestNodeStoich",
             setReactionDestNodeStoich(St, neti, reai, nodei, st))

\* a network object written by hand: two nodes and the reaction A -> B whose
\* reactant has stoichiometry 0; SpeciesNode declares stoich = fields.Float()
\* with no validator
ZeroStoichObject ==
    LET node(id) ==
            [id |-> id, position |-> <<0, 0>>, rectSize |-> <<10, 10>>,
             floating |-> FALSE, fillColor |-> <<255, 150, 80>>,
             outlineColor |-> <<255, 100, 80>>, outlineThickness |-> 3]
        species(st) == [stoich |-> st, handlePos |-> <<0, 0>>]
    IN  [id |-> "net2",
         nodes |-> [i \in {0, 1} |-> node(IF i = 0 THEN "A" ELSE "B")],
         reactions |-> [i \in {0} |->
                          [id |-> "r1", rateLaw |-> "",
                           reactants |-> [n \in {0} |-> species(0)],
                           products |-> [n \in {1} |-> species(1)],
                           fillColor |-> <<255, 150, 80>>, thickness |-> 3,
                           centerHandlePos |-> <<0, 0>>]],
         compartments |-> EmptyMap]

LoadObject(b, obj) == Call(b, "loadNetwork", loadNetwork(St, obj))

(* Reactions built in Idle mode, their stoichiometries set, and a network  *)
(* object loaded, never undone.                                            *)
NextStoich ==
    \/ NewNetwork(MaxStoichStack)
    \/ AddNode(MaxStoichStack, NodeIDs)
    \/ CreateReaction(MaxStoichStack, {"r1"}, {<<0>>, <<1>>})
    \/ SetReactionSrcNodeStoich(MaxStoichStack)
    \/ SetReactionDestNodeStoich(MaxStoichStack)
    \/ LoadObject(MaxStoichStack, ZeroStoichObject)

SpecStoich == Init /\ [][NextStoich]_vars

\* the stoichiometries of the reactants and products of every reaction
StoredStoichs(d) ==
    UNION {UNION {{d[i].reactions[j].reactants[n].stoich :
                       n \in DOMAIN d[i].reactions[j].reactants}
                  \cup {d[i].reactions[j].products[n].stoich :
                       n \in DOMAIN d[i].reactions[j].products} :
                  j \in DOMAIN d[i].reactions} :
           i \in DOMAIN d}

\* C31: in every reachable state every reactant and product entry of every
\* reaction has a stoichiometry strictly greater than 0.
StoichiometryPositive == \A st \in StoredStoichs(networkDict) : st > 0

\* loadNetwork has returned normally and a reactant of the registry has
\* stoichiometry 0
LoadedZeroStoich ==
    /\ op = "loadNetwork"
    /\ raised = "none"
    /\ 0 \in DOMAIN networkDict
    /\ 0 \in DOMAIN networkDict[0].reactions
    /\ 0 \in DOMAIN networkDict[0].reactions[0].reactants
    /\ networkDict[0].reactions[0].reactants[0].stoich = 0

---------------------------------------------------------------------------
(* The history is a stack.                                                 *)

MaxHistoryStack == 4

(* Nodes and reactions created in Idle mode, the centre of a reaction     *)
(* set, calls undone and redone.                                           *)
NextHistory ==
    \/ Undo(MaxHistoryStack)
    \/ Redo(MaxHistoryStack)
    \/ NewNetwork(MaxHistoryStack)
    \/ AddNode(MaxHistoryStack, NodeIDs)
    \/ CreateReaction(MaxHistoryStack, {"r1"}, {<<0>>, <<1>>})
    \/ SetReactionCenterPos(MaxHistoryStack)

SpecHistory == Init /\ [][NextHistory]_vars

\* C32: the history is LIFO: when k successful mutating calls in Idle mode
\* take the registry through S0, ..., Sk, then k undo() calls in a row make
\* the registry S(k-1), ..., S0, k redo() calls in a row then make it
\* S1, ..., Sk, and the next undo or redo in a row fails with StackEmpty
\* (here k = 1 and k = 2, S0 any registry reached in Idle mode; the last
\* undo is followed from the states whose undo stack was empty at S0).
HistoryIsLIFO ==
    stackFlag =>
      \A r1 \in GraphCallsFrom(St) :
        r1.raised = "none" =>
          /\ LET u1 == undo(r1)
                 d1 == redo(u1)
             IN  /\ u1.raised = "none"
                 /\ DeepEqual(u1.networkDict, networkDict)
                 /\ netSetStack = <<>> => undo(u1).raised = "StackEmptyError"
                 /\ d1.raised = "none"
                 /\ DeepEqual(d1.networkDict, r1.networkDict)
                 /\ redo(d1).raised = "StackEmptyError"
          /\ \A r2 \in GraphCallsFrom(r1) :
                r2.raised = "none" =>
                  LET u1 == undo(r2)
                      u2 == undo(u1)
                      d1 == redo(u2)
                      d2 == redo(d1)
                  IN  /\ u1.raised = "none"
                      /\ DeepEqual(u1.networkDict, r1.networkDict)
                      /\ u2.raised = "none"
                      /\ DeepEqual(u2.networkDict, networkDict)
                      /\ netSetStack = <<>> => undo(u2).raised = "StackEmptyError"
                      /\ d1.raised = "none"
                      /\ DeepEqual(d1.networkDict, r1.networkDict)
                      /\ d2.raised = "none"
                      /\ DeepEqual(d2.networkDict, r2.networkDict)
                      /\ redo(d2).raised = "StackEmptyError"

\* a reaction with no centre set, in Idle mode: setReactionCenterPos
\* succeeds and changes the registry, and the undo() after it does not
\* bring back the registry the call found but the one before the reaction
\* was created
UndoSkippedCenterPos ==
    /\ stackFlag
    /\ op = "createReaction"
    /\ raised = "none"
    /\ 0 \in DOMAIN networkDict
    /\ 0 \in DOMAIN networkDict[0].reactions
    /\ LET r == setReactionCenterPos(St, 0, 0, <<5, 5>>)
           u == undo(r)
       IN  /\ r.raised = "none"
           /\ ~DeepEqual(r.networkDict, networkDict)
           /\ u.raised = "none"
           /\ ~DeepEqual(u.networkDict, networkDict)
           /\ DeepEqual(u.networkDict, top(netSetStack))
           /\ 0 \notin DOMAIN u.networkDict[0].reactions

---------------------------------------------------------------------------
(* The size of a compartment.                                              *)

MaxCompSizeStack == 3

\* (w, h) arguments: positive, a zero width, a negative height
SizeArgs == {<<50, 50>>, <<0, 50>>, <<50, -1>>}

AddCompartmentOfSize(b, ids) ==
    \E neti \in NetArgs, id \in ids, sz \in SizeArgs :
        Call(b, "addCompartment", addCompartment(St, neti, id, 0, 0, sz[1], sz[2]))

SetCompartmentSizeTo(b) ==
    \E neti \in NetArgs, compi \in CompArgs, sz \in SizeArgs :
        Call(b, "setCompartmentSize", setCompartmentSize(St, neti, compi, sz[1], sz[2]))

(* Compartments added and resized in Idle mode, never undone.              *)
NextCompSize ==
    \/ NewNetwork(MaxCompSizeStack)
    \/ AddCompartmentOfSize(MaxCompSizeStack, CompIDs)
    \/ SetCompartmentSizeTo(MaxCompSizeStack)
    \/ SetCompartmentVolume(MaxCompSizeStack)

SpecCompSize == Init /\ [][NextCompSize]_vars

\* C33: compartment dimensions are positive: addCompartment and
\* setCompartmentSize called with a width or height that is zero or
\* negative raise the out-of-range error (code -12) and change nothing, so every compartment of
\* every reachable state has width > 0 and height > 0.
CompartmentSizesPositive ==
    /\ \A i \in DOMAIN networkDict : \A c \in DOMAIN networkDict[i].compartments :
          /\ networkDict[i].compartments[c].rectSize[1] > 0
          /\ networkDict[i].compartments[c].rectSize[2] > 0
    /\ \A neti \in NetArgs, sz \in SizeArgs :
          (sz[1] <= 0 \/ sz[2] <= 0) =>
              /\ \A id \in CompIDs :
                    LET r == addCompartment(St, neti, id, 0, 0, sz[1], sz[2])
                    IN  r.raised = "ValueError" /\ r.errCode = -12 /\ LeavesAll(r)
              /\ \A compi \in CompArgs :
                    LET r == setCompartmentSize(St, neti, compi, sz[1], sz[2])
                    IN  r.raised = "ValueError" /\ r.errCode = -12 /\ LeavesAll(r)

\* addCompartment has returned normally and the compartment it added has
\* width 0
CompartmentOfWidthZero ==
    /\ op = "addCompartment"
    /\ raised = "none"
    /\ \E i \in DOMAIN networkDict : \E c \in DOMAIN networkDict[i].compartments :
          networkDict[i].compartments[c].rectSize[1] = 0

---------------------------------------------------------------------------
(* The constructor of a network, given the entities.                       *)

\* TNetwork(net.id, net.nodes, net.reactions, net.compartments)
Rebuilt(net) == TNetworkInit(net.id, net.nodes, net.reactions, net.compartments)

\* C34: a TNetwork constructed from an existing node map has baseNodes
\* equal to exactly the set of node indices whose compi is -1 (the nodes in
\* no compartment); a node whose compi names a compartment, whatever its
\* index, is not in baseNodes.
BaseNodesAreUnassigned ==
    \A i \in DOMAIN networkDict :
        LET net == networkDict[i]
        IN  Rebuilt(net).baseNodes = {n \in DOMAIN net.nodes : net.nodes[n].compi = -1}

\* setCompartmentOfNode has put a node into compartment 1: the network
\* constructed from the node map has the node in baseNodes
MemberOfCompartmentOneInBase ==
    /\ op = "setCompartmentOfNode"
    /\ raised = "none"
    /\ \E i \in DOMAIN networkDict : \E n \in DOMAIN networkDict[i].nodes :
          /\ networkDict[i].nodes[n].compi = 1
          /\ n \in networkDict[i].compartments[1].node_indices
          /\ n \notin networkDict[i].baseNodes
          /\ n \in Rebuilt(networkDict[i]).baseNodes

---------------------------------------------------------------------------
(* The mode a recipe leaves.                                               *)

RecipeNames == {"createUniUni", "CreateUniBi", "CreateBiUni", "CreateBiBi"}

\* the addNode calls that succeed in the state reached push a snapshot of
\* their own, the registry they found
NextAddNodePushes ==
    \A neti \in NetArgs, id \in NodeIDs \cup {"C"} :
        LET r == addNode(St, neti, id, 0, 0, 10, 10)
        IN  r.raised = "none" =>
                /\ Len(r.netSetStack) = Len(netSetStack) + 1
                /\ DeepEqual(top(r.netSetStack), networkDict)

\* C35: every compound recipe (createUniUni, CreateUniBi, CreateBiUni,
\* CreateBiBi) leaves the engine in Idle mode when it returns control to the
\* caller, whether it returned normally or raised: the next primitive
\* mutating call that succeeds pushes its own snapshot.
RecipeLeavesIdle ==
    op \in RecipeNames => (stackFlag /\ NextAddNodePushes)

\* CreateBiBi has raised on a network with one node: the group is still
\* open, and the addNode that succeeds next pushes no snapshot
RecipeRaisedInGroupMode ==
    /\ op = "CreateBiBi"
    /\ raised # "none"
    /\ ~stackFlag
    /\ 0 \in DOMAIN networkDict
    /\ DOMAIN networkDict[0].nodes = {0}
    /\ LET r == addNode(St, 0, "B", 0, 0, 10, 10)
       IN  /\ r.raised = "none"
           /\ r.netSetStack = netSetStack
           /\ DOMAIN r.networkDict[0].nodes = {0, 1}

---------------------------------------------------------------------------
(* The redo stack after an edit.                                           *)

\* C36: redo() never discards an edit: after any mutating call that
\* succeeds, in Idle mode or while a group is open, the redo stack is
\* empty, so that the redo stack is non-empty only while no mutating call
\* has changed the registry since the last undo() or redo().
EditEmptiesRedoStack ==
    (op \in Mutators /\ raised = "none") => redoStack = <<>>

\* addNode has succeeded while a group was open, after an undo(): the redo
\* stack still holds the registry that undo() replaced, and the redo() that
\* follows installs it, a registry without the node just added
EditInGroupKeptRedoStack ==
    /\ op = "addNode"
    /\ raised = "none"
    /\ ~stackFlag
    /\ redoStack # <<>>
    /\ 0 \in DOMAIN networkDict
    /\ 0 \in DOMAIN networkDict[0].nodes
    /\ LET d == redo(St)
       IN  /\ d.raised = "none"
           /\ 0 \in DOMAIN d.networkDict => 0 \notin DOMAIN d.networkDict[0].nodes

---------------------------------------------------------------------------
(* The index a new network gets.                                           *)

MaxRegistryStack == 4

(* Networks created, loaded, deleted and cleared in Idle mode, calls       *)
(* undone and redone.                                                      *)
NextRegistry ==
    \/ Undo(MaxRegistryStack)
    \/ Redo(MaxRegistryStack)
    \/ NewNetwork(MaxRegistryStack)
    \/ DeleteNetwork(MaxRegistryStack)
    \/ ClearNetworks(MaxRegistryStack)
    \/ LoadNetwork(MaxRegistryStack)
    \/ AddNode(MaxRegistryStack, {"A"})

SpecRegistry == Init /\ [][NextRegistry]_vars

\* the ids a network is created with
NewNetIDs == {"net1", "net2", "net3"}

\* result r of a call that registered a network: every network of the
\* registry the call found is still there, unchanged
KeepsNetworks(r) ==
    /\ DOMAIN networkDict \subseteq DOMAIN r.networkDict
    /\ \A i \in DOMAIN networkDict :
          DeepEqual(i :> r.networkDict[i], i :> networkDict[i])

\* C37: creating a network never replaces an existing one: under any
\* interleaving of newNetwork, loadNetwork, deleteNetwork, clearNetworks,
\* undo and redo, newNetwork and _addNetwork register the new network under
\* an index that is not a key of the registry, so every network present
\* before the call is still present, unchanged, after it.
NewNetworkKeepsNetworks ==
    \A id \in NewNetIDs :
        LET r == newNetwork(St, id)
            a == addNetwork(St, TNetwork(id))
        IN  /\ r.raised = "none" =>
                (lastNetIndex \notin DOMAIN networkDict /\ KeepsNetworks(r))
            /\ a.raised = "none" =>
                (lastNetIndex \notin DOMAIN networkDict /\ KeepsNetworks(a))

\* newNetwork has succeeded in Idle mode on a registry that had a network
\* of another id at index 0: that network is gone, the new one is at its
\* index
NewNetworkReplacedNetwork ==
    /\ op = "newNetwork"
    /\ raised = "none"
    /\ stackFlag
    /\ netSetStack # <<>>
    /\ 0 \in DOMAIN top(netSetStack)
    /\ top(netSetStack)[0].id = "net2"
    /\ DOMAIN networkDict = {0}
    /\ networkDict[0].id = "net1"

---------------------------------------------------------------------------
(* What a node setter leaves alone.                                        *)

MaxFontStack == 4

(* Two nodes whose fields and fonts are set in Idle mode, calls undone.    *)
NextFonts ==
    \/ Undo(MaxFontStack)
    \/ NewNetwork(MaxFontStack)
    \/ AddNode(MaxFontStack, NodeIDs)
    \/ SetNodeCoordinate(MaxFontStack)
    \/ SetNodeFontPointSize(MaxFontStack)
    \/ SetNodeFontColorRGB(MaxFontStack)

SpecFonts == Init /\ [][NextFonts]_vars

\* the results of the field setters called on node nodei of network neti
NodeSetterCalls(neti, nodei) ==
    {setNodeCoordinate(St, neti, nodei, c[1], c[2], FALSE) : c \in Coords}
    \cup {setNodeSize(St, neti, nodei, z[1], z[2]) : z \in Sizes}
    \cup {setNodeFillColorRGB(St, neti, nodei, c[1], c[2], c[3]) : c \in RGBs}
    \cup {setNodeFillColorAlpha(St, neti, nodei, a) : a \in Alphas}
    \cup {setNodeOutlineColorRGB(St, neti, nodei, c[1], c[2], c[3]) : c \in RGBs}
    \cup {setNodeOutlineColorAlpha(St, neti, nodei, a) : a \in Alphas}
    \cup {setNodeOutlineThickness(St, neti, nodei, t) : t \in Thicknesses}

\* the results of the font setters called on node nodei of network neti
FontSetterCalls(neti, nodei) ==
    {setNodeFontPointSize(St, neti, nodei, z) : z \in PointSizes}
    \cup {setNodeFontColorRGB(St, neti, nodei, c[1], c[2], c[3]) : c \in RGBs}
    \cup {setNodeFontColorAlpha(St, neti, nodei, a) : a \in Alphas}

\* the call that returned r with no exception changed no node but nodei of
\* network neti, and the node added after it has the default font
OnlyNodeChanged(r, neti, nodei) ==
    r.raised = "none" =>
        /\ \A o \in NodeRefs(networkDict) \ {<<neti, nodei>>} :
              r.networkDict[o[1]].nodes[o[2]] = networkDict[o[1]].nodes[o[2]]
        /\ LET a == addNode(r, neti, "C", 0, 0, 10, 10)
               new == r.networkDict[neti].lastNodeIdx
           IN  a.raised = "none" => a.networkDict[neti].nodes[new].font = TFont

\* C38: a node field setter changes only the addressed node: after a
\* successful setter on node i (position, size, fill and outline colour,
\* outline thickness, font point size, font colour) every other node of
\* every network has all its field values unchanged, its font included, and
\* a node added afterwards gets the default font (point size 20, family
\* "default").
SetterChangesOneNode ==
    \A neti \in NetArgs, nodei \in NodeArgs :
        \A r \in NodeSetterCalls(neti, nodei) \cup FontSetterCalls(neti, nodei) :
            OnlyNodeChanged(r, neti, nodei)

\* setNodeFontPointSize has succeeded in Idle mode on one of two nodes that
\* had point size 20: both nodes have the new point size, and the node
\* added next has it too
FontSetOnBothNodes ==
    /\ op = "setNodeFontPointSize"
    /\ raised = "none"
    /\ stackFlag
    /\ netSetStack # <<>>
    /\ 0 \in DOMAIN top(netSetStack)
    /\ DOMAIN top(netSetStack)[0].nodes = {0, 1}
    /\ top(netSetStack)[0].nodes[0].font.pointSize = 20
    /\ top(netSetStack)[0].nodes[1].font.pointSize = 20
    /\ networkDict[0].nodes[0].font.pointSize = 12
    /\ networkDict[0].nodes[1].font.pointSize = 12
    /\ LET a == addNode(St, 0, "C", 0, 0, 10, 10)
       IN  a.raised = "none" /\ a.networkDict[0].nodes[2].font.pointSize = 12

---------------------------------------------------------------------------
(* The event handler registry (src/rkviewer/events.py).  A HandlerNode is  *)
(* named by the order of its creation; next_ and prev hold the name of a   *)
(* node, NoNode for None, or Unset for an attribute that was never         *)
(* assigned.  The callbacks are taken to call no function of this module.  *)

MaxHandlers == 4

EventTypes == {"DidMoveNodesEvent", "DidPaintCanvasEvent"}
Callbacks == {"f", "g"}
HandlerArgs == 0 .. MaxHandlers

NoNode == -1
Unset == -2

\* HandlerNode.__init__: handler and next_ are assigned, prev is not
HandlerNode(handler) == [handler |-> handler, next_ |-> NoNode, prev |-> Unset]

\* HandlerChain.__init__
HandlerChain == [head |-> NoNode, tail |-> NoNode, it_cur |-> NoNode]

\* the state of the module, with the exception raised, the value returned
\* and the callbacks called by the function applied last
EvSt ==
    [handlerNodes |-> handlerNodes, event_chains |-> event_chains,
     handler_map |-> handler_map, handler_id |-> handler_id,
     raised |-> "none", ret |-> NoNode, called |-> <<>>]

\* event_chains[evt_cls] of the defaultdict: an absent key gets a new chain
getChain(e, evt_cls) ==
    IF evt_cls \in DOMAIN e.event_chains THEN e
    ELSE [e EXCEPT !.event_chains = Put(@, evt_cls, HandlerChain)]

\* HandlerChain.append on the chain of evt_cls; the new node is returned
append(e, evt_cls, handler) ==
    LET chain == e.event_chains[evt_cls]
        node == Cardinality(DOMAIN e.handlerNodes)
    IN  IF chain.head = NoNode
        THEN IF chain.tail # NoNode
             THEN [e EXCEPT !.raised = "AssertionError"]
             ELSE [e EXCEPT !.handlerNodes = Put(@, node, HandlerNode(handler)),
                            !.event_chains[evt_cls].head = node,
                            !.event_chains[evt_cls].tail = node,
                            !.ret = node]
        ELSE IF chain.tail = NoNode
             THEN [e EXCEPT !.raised = "AssertionError"]
             ELSE [e EXCEPT !.handlerNodes =
                                Put([@ EXCEPT ![chain.tail].next_ = node], node,
                                    [HandlerNode(handler) EXCEPT !.prev = chain.tail]),
                            !.event_chains[evt_cls].tail = node,
                            !.ret = node]

bind_handler(e, evt_cls, callback) ==
    LET ret == e.handler_id
        a == append(getChain(e, evt_cls), evt_cls, callback)
    IN  IF a.raised # "none" THEN a
        ELSE [a EXCEPT !.handler_map = Put(@, ret, <<evt_cls, a.ret>>),
                       !.handler_id = @ + 1,
                       !.ret = ret]

\* HandlerChain.remove on the chain of evt_cls: reading node.prev of a node
\* on which prev was never assigned raises AttributeError
remove(e, evt_cls, node) ==
    LET n == e.handlerNodes[node]
    IN  IF n.prev = Unset
        THEN [e EXCEPT !.raised = "AttributeError"]
        ELSE LET e1 == IF n.prev # NoNode
                       THEN [e EXCEPT !.handlerNodes[n.prev].next_ = n.next_]
                       ELSE [e EXCEPT !.event_chains[evt_cls].head = n.next_]
             IN  IF n.next_ # NoNode
                 THEN [e1 EXCEPT !.handlerNodes[n.next_].prev = n.prev]
                 ELSE [e1 EXCEPT !.event_chains[evt_cls].tail = n.prev]

unbind_handler(e, id) ==
    IF id \notin DOMAIN e.handler_map
    THEN [e EXCEPT !.raised = "KeyError"]
    ELSE LET r == remove(e, e.handler_map[id][1], e.handler_map[id][2])
         IN  IF r.raised # "none" THEN r
             ELSE [r EXCEPT !.handler_map = Del(@, id)]

\* HandlerChain.__iter__ / __next__ from node cur on: the handlers returned
RECURSIVE handlersFrom(_, _)
handlersFrom(nodes, cur) ==
    IF cur = NoNode THEN <<>>
    ELSE <<nodes[cur].handler>> \o handlersFrom(nodes, nodes[cur].next_)

\* post_event of an event of class evt_cls: it_cur is None again at the end
post_event(e, evt_cls) ==
    LET e1 == getChain(e, evt_cls)
    IN  [e1 EXCEPT !.called = handlersFrom(e1.handlerNodes, e1.event_chains[evt_cls].head)]

\* the events call `name` takes the state to r; posted remembers the call
\* (id and evt_cls: its arguments, NoNode and "" when it has none), the ids
\* that were bound when it was made and the ids returned before it
EvCall(name, id, evt_cls, r) ==
    /\ handlerNodes' = r.handlerNodes
    /\ event_chains' = r.event_chains
    /\ handler_map' = r.handler_map
    /\ handler_id' = r.handler_id
    /\ posted' = [op |-> name, id |-> id, evt |-> evt_cls,
                  raised |-> r.raised, ret |-> r.ret, called |-> r.called,
                  bound |-> DOMAIN handler_map,
                  issued |-> IF posted.op = "bind_handler" /\ posted.raised = "none"
                             THEN posted.issued \cup {posted.ret}
                             ELSE posted.issued]
    /\ UNCHANGED <<networkDict, netSetStack, redoStack, stackFlag, errCode,
                   lastNetIndex, defaultFont, op, raised, grp, pair>>

BindHandler ==
    /\ handler_id < MaxHandlers
    /\ \E evt_cls \in EventTypes, callback \in Callbacks :
          EvCall("bind_handler", NoNode, evt_cls, bind_handler(EvSt, evt_cls, callback))

UnbindHandler ==
    \E id \in HandlerArgs :
        EvCall("unbind_handler", id, "", unbind_handler(EvSt, id))

PostEvent ==
    \E evt_cls \in EventTypes :
        EvCall("post_event", NoNode, evt_cls, post_event(EvSt, evt_cls))

(* Handlers bound and unbound, events posted.                              *)
NextEvents == BindHandler \/ UnbindHandler \/ PostEvent

SpecEvents == Init /\ [][NextEvents]_vars

\* the callbacks of the handler ids of set ids, in the order of the ids
RECURSIVE inOrder(_, _)
inOrder(e, ids) ==
    IF ids = {} THEN <<>>
    ELSE LET first == CHOOSE i \in ids : \A j \in ids : i <= j
         IN  <<e.handlerNodes[e.handler_map[first][2]].handler>>
                 \o inOrder(e, ids \ {first})

\* the callbacks bound to evt_cls in state e, in the order they were bound
BoundTo(e, evt_cls) ==
    inOrder(e, {i \in DOMAIN e.handler_map : e.handler_map[i][1] = evt_cls})

\* C39: for any sequence of bind_handler and unbind_handler calls,
\* bind_handler returns an id never returned before, unbind_handler(id) of a
\* currently bound id succeeds (also for the first handler bound to an event
\* type), and post_event(e) then calls exactly the handlers still bound to
\* type(e), once each, in the order they were bound.
HandlerRegistryWorks ==
    /\ posted.op = "bind_handler" =>
          (posted.raised = "none" /\ posted.ret \notin posted.issued)
    /\ (posted.op = "unbind_handler" /\ posted.id \in posted.bound) =>
          (posted.raised = "none" /\ posted.id \notin DOMAIN handler_map)
    /\ \A evt_cls \in EventTypes :
          post_event(EvSt, evt_cls).called = BoundTo(EvSt, evt_cls)

\* unbind_handler has been called with the id of the first handler bound to
\* an event type, while a second handler was bound to it: it raised
\* AttributeError and the handler is still bound and still called
FirstHandlerStaysBound ==
    /\ posted.op = "unbind_handler"
    /\ posted.id \in posted.bound
    /\ posted.raised = "AttributeError"
    /\ posted.id \in DOMAIN handler_map
    /\ LET evt_cls == handler_map[posted.id][1]
           node == handler_map[posted.id][2]
       IN  /\ event_chains[evt_cls].head = node
           /\ event_chains[evt_cls].tail # node
           /\ Len(post_event(EvSt, evt_cls).called) = 2

====
